---- MODULE Spec2Model ----
(***************************************************************************)
(* Ingestion, deduplication and manifest handling of agent-reflection.     *)
(*                                                                         *)
(* Two SQLite ingestion scripts (twitter-ingest-sqlite, youtube-ingest-    *)
(* sqlite) scan a directory, skip the files whose content hash is in a     *)
(* JSON manifest, and upsert the records of every other file inside one    *)
(* better-sqlite3 transaction per file.  Two Convex mutations              *)
(* (activities.batchInsert, bookmarks.batchInsert) insert documents whose  *)
(* natural key is not yet stored.                                          *)
(***************************************************************************)
EXTENDS Integers, Sequences, FiniteSets, TLC

(* ------------------------------ bounds --------------------------------- *)
\* process launches (script runs and Convex mutation calls) explored
MaxLaunches == 3

(* ----------------------------- constants ------------------------------- *)
Kinds == {"twitter", "youtube"}
Both == "both"
NoEntry == [filename |-> "", processedAt |-> -1, records |-> 0, inserted |-> 0,
            upgraded |-> 0, skipped |-> 0, source |-> ""]
NoTime == -1

Rec(key, text) == [key |-> key, text |-> text]
File(name, hash, source, tag, records) ==
    [name |-> name, hash |-> hash, source |-> source, tag |-> tag, records |-> records]

\* The files that can appear in BOOKMARKS_DIR and LIKES_DIR, in scan order
\* (bookmark files first).  likes/y.json has the bytes of bookmarks/x.json;
\* the export lists the tweet u1 twice.
TwitterFiles ==
    << File("bookmarks/x.json", "h1", "bookmark", "x.json",
            <<Rec("u1", "a"), Rec("u2", "b"), Rec("u1", "a")>>),
       File("likes/y.json",     "h1", "like",     "y.json",
            <<Rec("u1", "a"), Rec("u2", "b"), Rec("u1", "a")>>) >>

\* The files that can appear in YOUTUBE_DIR, in scan order.  tag is the date
\* in the file name, which main() passes to processFile as savedAt.
YouTubeFiles ==
    << File("liked-2024-01-01.json",       "g1", "liked",       "2024-01-01", <<Rec("v1", "a"), Rec("v2", "b")>>),
       File("watch-later-2024-01-02.json", "g2", "watch_later", "2024-01-02", <<Rec("v1", "c"), Rec("v1", "c")>>) >>

Files(k) == IF k = "twitter" THEN TwitterFiles ELSE YouTubeFiles
Hashes(k) == {Files(k)[f].hash : f \in DOMAIN Files(k)}

EmptyStore == [rows |-> <<>>, vecs |-> <<>>, map |-> <<>>]
EmptyManifest(k) == [h \in Hashes(k) |-> NoEntry]

(* ------------------- embedding jobs: constants -------------------------- *)
\* largest MAX_REPOS / --batch explored
MaxItems == 2
\* entities per provider call and transaction: BATCH_SIZE=1 for
\* github-stars-embed; the chunks of 100 of the bookmark backfill at scale 1
BATCH_SIZE == 1

Tables == {"stars", "bookmarks", "videos"}
JobIds == {1, 2}

\* a row of starred_repos / bookmarks / saved_videos: its id (repo id,
\* bookmark id, video_id), its recency (starred_at, timestamp, saved_at) and,
\* for a video, its transcript, for a repository, its description
Entity(id, at) == [id |-> id, at |-> at, transcript |-> "", description |-> ""]

\* rows another process can add while the jobs run: github-stars-sync adds
\* repositories without embeddings (r2 and r3 were starred at the same time),
\* twitter-ingest and youtube-ingest add an entity with its vector and mapping
NewEntities(t) ==
    IF t = "stars" THEN {Entity("r1", 1), Entity("r2", 2), Entity("r3", 2)}
    ELSE IF t = "bookmarks" THEN {Entity("b3", 3)}
    ELSE {Entity("v2", 2)}

\* the tables as the embedding scripts find them: bookmarks and a video
\* imported before embeddings were generated at ingestion
LegacyStore ==
    [t \in Tables |->
        [rows |-> IF t = "bookmarks" THEN <<Entity("b1", 1), Entity("b2", 2)>>
                  ELSE IF t = "videos" THEN <<Entity("v1", 1)>>
                  ELSE <<>>,
         vecs |-> <<>>, map |-> <<>>]]

\* limit: MAX_REPOS / --batch of the invocation; sel: the rows it selected;
\* the Convex table blogDrafts and the SQLite table blog_drafts of the API
DraftStores == {"convex", "sqlite"}
Weeks == {"2024-01-01", "2024-01-08"}
\* no draft stored for the week
NoDraft == [status |-> "none", content |-> "", createdAt |-> NoTime, publishedAt |-> NoTime]

\* no document, no vector
EmptyCorpus == [docs |-> <<>>, vecs |-> <<>>]
\* no request was answered yet
NoAnswer == [op |-> "none", q |-> 0, text |-> "", key |-> "", tag |-> "", minStars |-> 0,
             limit |-> 0, result |-> <<>>]

\* the Convex tables of a new deployment
EmptyConvex == [activities |-> <<>>, dayActivities |-> <<>>, bookmarks |-> <<>>]

\* github-stars-sync is not running; page: the page fetchAndSaveStars is at,
\* attempt: the loop variable of fetchPageWithRetry, err: the message of the
\* error caught last
IdleFetch == [pc |-> "idle", page |-> 0, attempt |-> 0, err |-> ""]

\* starred_at of the starred repositories github-readme-fetch works on (q2
\* and q3 were starred at the same time)
StarredAt == [q1 |-> 1, q2 |-> 2, q3 |-> 2, q4 |-> 3]

\* the repositories as github-stars-sync inserted them (readme_content NULL,
\* has_readme 1, readme_fetched_at NULL) and no run of github-readme-fetch;
\* result: how the last run ended
NoReadmeRun ==
    [rows |-> [r \in DOMAIN StarredAt |-> [content |-> "NULL", has |-> 1, fetchedAt |-> "NULL"]],
     pc |-> "idle", repos |-> <<>>, result |-> ""]

\* no subtitle file was fetched
NoVtt == [pc |-> "none", lines |-> <<>>, chunkSize |-> 0, segments |-> <<>>, chunks |-> <<>>]

\* res: how the last invocation of the job slot ended; k: the group it
\* failed in; start: pendingCount() when it began; grew: an entity without
\* embedding was added to its table while it ran
IdleJob ==
    [pc |-> "idle", t |-> "", limit |-> 0, sel |-> <<>>, pos |-> 0, nextRowid |-> 0,
     existing |-> 0, start |-> 0, grew |-> FALSE, res |-> "none", k |-> 0]

VARIABLES
    present,  \* present[k]: the files in the source directory of script k
    disk,     \* disk[k]: the manifest file .processed-sqlite.json of script k
    db,       \* db[k]: committed rows of the entity, vector and mapping tables
    proc,     \* proc[k]: the locals of the running script k
    launches, \* number of processes launched so far
    hist,     \* hist[k]: history of script k (what committed, how runs ended)
    convex,   \* the Convex tables activities, dayActivities and bookmarks
    estore,   \* estore[t]: entity, vector and mapping table of the embedding jobs
    jobs,     \* jobs[j]: a running backfill invocation or transcript request
    corpus,   \* the entity rows and vectors the retrieval endpoints read
    answer,   \* the last retrieval request answered from the corpus as it is,
              \* and its response
    drafts,   \* drafts[s][w]: the blog draft of week w in store s
    vtt,      \* a subtitle file on its way through parseVTT and chunkSegments
    fetch,    \* the locals of fetchAndSaveStars and fetchPageWithRetry
    readme    \* the README columns of starred_repos and the locals of
              \* github-readme-fetch

vars == <<present, disk, db, proc, launches, hist, convex, estore, jobs, corpus, answer,
          drafts, vtt, fetch, readme>>

\* the variables of the ingestion scripts and the Convex mutations
ingestVars == <<present, disk, db, proc, hist, convex>>
\* the variables of the embedding jobs
embedVars == <<estore, jobs>>
\* the variables of the retrieval endpoints
searchVars == <<corpus, answer>>
\* the variables of the stand-alone functions and scripts
scriptVars == <<vtt, fetch, readme>>
\* the variables the ingestion scripts and the Convex mutations leave alone
auxVars == <<embedVars, searchVars, drafts, scriptVars>>
\* the variables the embedding jobs leave alone
outsideEmbed == <<ingestVars, searchVars, drafts, scriptVars>>
\* the variables the retrieval endpoints leave alone
outsideSearch == <<ingestVars, embedVars, launches, drafts, scriptVars>>
\* the variables the blog draft operations leave alone
outsideDrafts == <<ingestVars, embedVars, searchVars, scriptVars>>

IdleProc(k) ==
    [pc |-> "idle", manifest |-> EmptyManifest(k), queue |-> <<>>, cur |-> 0,
     toEmbed |-> {}, inserted |-> 0, upgraded |-> 0, skipped |-> 0]

\* runCommitted: files whose transaction committed in the running process and
\*   whose hash has no entry in the manifest file yet
\* orphaned: files after whose commit a process stopped before saveManifest
\* lastRun: how the last run over the present file set ended ("none" if
\*   there was none or if a file was added since)
\* done: files whose transaction has committed at some time
NoHist == [runCommitted |-> {}, orphaned |-> {}, lastRun |-> "none", done |-> {}]

InitBase ==
    /\ present = [k \in Kinds |-> {}]
    /\ disk = [k \in Kinds |-> EmptyManifest(k)]
    /\ db = [k \in Kinds |-> EmptyStore]
    /\ proc = [k \in Kinds |-> IdleProc(k)]
    /\ launches = 0
    /\ hist = [k \in Kinds |-> NoHist]
    /\ estore = LegacyStore
    /\ fetch = IdleFetch
    /\ readme = NoReadmeRun
    /\ jobs = [j \in JobIds |-> IdleJob]
    /\ answer = NoAnswer
    /\ drafts = [s \in DraftStores |-> [w \in Weeks |-> NoDraft]]

Init ==
    /\ InitBase
    /\ convex = EmptyConvex
    /\ corpus = EmptyCorpus
    /\ vtt = NoVtt

\* Date.now() and CURRENT_TIMESTAMP, read with the granularity of a process
\* launch: everything a process writes carries the ordinal of its launch
now == launches

(* ------------------------- pure helper functions ----------------------- *)
\* SELECT ... WHERE post_url = ? / video_id = ? : index of the row, 0 if none
FindByKey(rows, key) ==
    LET S == {i \in DOMAIN rows : rows[i].key = key}
    IN  IF S = {} THEN 0 ELSE CHOOSE i \in S : \A j \in S : i <= j

\* readdirSync + schema probe: the present files in scan order
FindFiles(k) ==
    LET all == [i \in 1..Len(Files(k)) |-> i]
    IN  SelectSeq(all, LAMBDA f : f \in present[k])

\* bug: the manifest is not consulted
filterUnprocessedFiles_All(k, files, manifest) == files

filterUnprocessedFiles(k, files, manifest) ==
    SelectSeq(files, LAMBDA f : manifest[Files(k)[f].hash] = NoEntry)

\* the key of the mapping table: bookmarks.id for tweets, video_id for videos
EntityId(k, row) == IF k = "twitter" THEN row.id ELSE row.key

\* the prescan of youtube processFile: records whose video_id is not stored
videosToEmbed(k, f) ==
    {i \in DOMAIN Files(k)[f].records :
        FindByKey(db[k].rows, Files(k)[f].records[i].key) = 0}

\* the records processFile asks the provider to embed before its transaction
ToEmbed(k, f) ==
    IF k = "twitter" THEN DOMAIN Files(k)[f].records ELSE videosToEmbed(k, f)

\* bug: the update also refreshes the import timestamp
updateSource_TouchesAt(k, row) == [row EXCEPT !.source = Both, !.at = now]

\* bug: the update stores the channel of the arriving file (last write wins)
updateSource_Overwrite(k, row) ==
    [row EXCEPT !.source = Files(k)[proc[k].cur].source]

\* UPDATE ... SET source = 'both' [, updated_at = CURRENT_TIMESTAMP]
updateSource(k, row) ==
    IF k = "twitter" THEN [row EXCEPT !.source = Both]
    ELSE [row EXCEPT !.source = Both, !.upd = now]

\* bug: a merged row is upgraded again
NeedsUpgrade_NoBoth(existing, fileSource) == existing.source # fileSource

\* bug: a row of the file's own channel is upgraded
NeedsUpgrade_NoChannel(existing, fileSource) == existing.source # Both

\* bug: a stored key is always skipped (the first channel wins)
NeedsUpgrade_Never(existing, fileSource) == FALSE

\* existing.source !== file.source && existing.source !== "both"
NeedsUpgrade(existing, fileSource) ==
    existing.source # fileSource /\ existing.source # Both

\* INSERT INTO bookmarks / saved_videos, then the vector and mapping rows;
\* twitter always has allEmbeddings[idx], youtube only for prescanned records
InsertEntity(k, store, f, i, emb) ==
    LET file == Files(k)[f]
        r    == file.records[i]
        row  == [id |-> Len(store.rows) + 1, key |-> r.key, text |-> r.text,
                 source |-> file.source, batch |-> file.tag, at |-> now,
                 upd |-> IF k = "twitter" THEN NoTime ELSE now]
        hasE == i \in emb
        rowid == Len(store.vecs) + 1
    IN  [rows |-> Append(store.rows, row),
         vecs |-> IF hasE THEN Append(store.vecs, [of |-> r.text]) ELSE store.vecs,
         map  |-> IF hasE THEN Append(store.map, [eid |-> EntityId(k, row), vec |-> rowid])
                  ELSE store.map]

\* the state of a transaction: its view of the tables and the counters
TxnBegin(k) ==
    [store |-> db[k], inserted |-> 0, upgraded |-> 0, skipped |-> 0, failed |-> FALSE]

\* one iteration of the loop inside processAll.  The UNIQUE index on
\* post_url / video_id makes an INSERT of a stored key throw.
ProcessRecord(k, f, i, emb, t) ==
    LET file == Files(k)[f]
        r    == file.records[i]
        e    == FindByKey(t.store.rows, r.key)
    IN  IF e # 0
        THEN IF NeedsUpgrade(t.store.rows[e], file.source)
             THEN [t EXCEPT !.store.rows[e] = updateSource(k, t.store.rows[e]),
                            !.upgraded = @ + 1]
             ELSE [t EXCEPT !.skipped = @ + 1]
        ELSE IF \E j \in DOMAIN t.store.rows : t.store.rows[j].key = r.key
             THEN [t EXCEPT !.failed = TRUE]
             ELSE [t EXCEPT !.store = InsertEntity(k, t.store, f, i, emb),
                            !.inserted = @ + 1]

\* the loop of processAll over records i..upto of file f
RECURSIVE processAll(_, _, _, _, _, _)
processAll(k, f, i, upto, emb, t) ==
    IF i > upto \/ t.failed THEN t
    ELSE processAll(k, f, i + 1, upto, emb, ProcessRecord(k, f, i, emb, t))

RunFile(k, upto) ==
    processAll(k, proc[k].cur, 1, upto, proc[k].toEmbed, TxnBegin(k))

NumRecords(k, f) == Len(Files(k)[f].records)

(* ------------------------------ actions -------------------------------- *)
\* an export file is dropped into the source directory
AddFile(k, f) ==
    /\ proc[k].pc = "idle"
    /\ f \notin present[k]
    /\ present' = [present EXCEPT ![k] = @ \cup {f}]
    /\ hist' = [hist EXCEPT ![k].lastRun = "none"]
    /\ UNCHANGED <<auxVars, disk, db, proc, launches, convex>>

\* processFile up to its first await: read the file, prescan (youtube)
BeginFile(k, p) ==
    [p EXCEPT !.pc = "embed", !.cur = Head(p.queue),
              !.toEmbed = ToEmbed(k, Head(p.queue)),
              !.inserted = 0, !.upgraded = 0, !.skipped = 0]

\* main(): scan, load the manifest, filter; returns at once if nothing is
\* new, else enters processFile of the first unprocessed file
StartRun(k) ==
    /\ proc[k].pc = "idle"
    /\ launches < MaxLaunches
    /\ launches' = launches + 1
    /\ LET files == FindFiles(k)
           unprocessed == filterUnprocessedFiles(k, files, disk[k])
       IN  /\ proc' = [proc EXCEPT ![k] =
                  IF unprocessed = <<>> THEN IdleProc(k)
                  ELSE BeginFile(k, [IdleProc(k) EXCEPT !.manifest = disk[k],
                                                        !.queue = unprocessed])]
           /\ hist' = [hist EXCEPT ![k].runCommitted = {},
                                   ![k].lastRun = IF unprocessed = <<>> THEN "ok" ELSE "running"]
    /\ UNCHANGED <<auxVars, present, disk, db, convex>>

\* bug (or other design): the error is swallowed and the file is ingested
\* without embeddings
OnEmbedError_Swallow(k) ==
    /\ proc' = [proc EXCEPT ![k].toEmbed = {}]
    /\ hist' = [hist EXCEPT ![k].lastRun = "embed_error"]
    /\ UNCHANGED <<auxVars, present, disk, db, launches, convex>>

\* what a rejected generateEmbeddings does to the run: processFile rejects,
\* main rejects, main().catch(console.error) logs; nothing was written
OnEmbedError(k) ==
    /\ proc' = [proc EXCEPT ![k] = IdleProc(k)]
    /\ hist' = [hist EXCEPT ![k].runCommitted = {}, ![k].lastRun = "embed_error"]
    /\ UNCHANGED <<auxVars, present, disk, db, launches, convex>>

\* generateEmbeddings throws (provider error, missing key); youtube calls
\* the provider only if the prescan found a new video
EmbedError(k) ==
    /\ proc[k].pc = "embed"
    /\ proc[k].toEmbed # {}
    /\ OnEmbedError(k)

\* bug: the writes made before the throw stay
Rollback_Keep(k, partial) == partial

\* what db.transaction leaves in the tables when its function throws after
\* the writes in partial: ROLLBACK
Rollback(k, partial) == db[k]

\* the embeddings arrived and a statement inside processAll throws at record
\* n + 1 (SQLITE_BUSY, I/O error, unbindable value, UNIQUE): rollback,
\* processFile rejects, main rejects
DbError(k) ==
    /\ proc[k].pc = "embed"
    /\ \E n \in 0..(NumRecords(k, proc[k].cur) - 1) :
           db' = [db EXCEPT ![k] = Rollback(k, RunFile(k, n).store)]
    /\ proc' = [proc EXCEPT ![k] = IdleProc(k)]
    /\ hist' = [hist EXCEPT ![k].runCommitted = {}, ![k].lastRun = "db_error"]
    /\ UNCHANGED <<auxVars, present, disk, launches, convex>>

\* the embeddings arrived and processAll() ran to its COMMIT: processFile
\* returns the counters
CommitFile(k) ==
    /\ proc[k].pc = "embed"
    /\ LET t == RunFile(k, NumRecords(k, proc[k].cur))
       IN  /\ ~t.failed
           /\ db' = [db EXCEPT ![k] = t.store]
           /\ proc' = [proc EXCEPT ![k].pc = "committed", ![k].inserted = t.inserted,
                                   ![k].upgraded = t.upgraded, ![k].skipped = t.skipped]
    /\ hist' = [hist EXCEPT ![k].runCommitted = @ \cup {proc[k].cur},
                            ![k].done = @ \cup {proc[k].cur}]
    /\ UNCHANGED <<auxVars, present, disk, launches, convex>>

\* manifest.files[file.hash] = {...}
ManifestWith(k, p) ==
    LET file == Files(k)[p.cur]
    IN  [p.manifest EXCEPT ![file.hash] =
            [filename |-> file.tag, processedAt |-> now,
             records |-> Len(file.records), inserted |-> p.inserted,
             upgraded |-> p.upgraded, skipped |-> p.skipped, source |-> file.source]]

\* bug: the manifest is kept in memory and not written after each file
saveManifest_Deferred(k, manifest) == disk[k]

\* saveManifest(manifest): the content of the manifest file after the call
saveManifest(k, manifest) == manifest

\* the rest of the loop body of main(): set the entry, save, then enter
\* processFile of the next file or finish
RecordManifest(k) ==
    /\ proc[k].pc = "committed"
    /\ LET m    == ManifestWith(k, proc[k])
           rest == Tail(proc[k].queue)
           d    == saveManifest(k, m)
       IN  /\ disk' = [disk EXCEPT ![k] = d]
           /\ proc' = [proc EXCEPT ![k] =
                  IF rest = <<>> THEN IdleProc(k)
                  ELSE BeginFile(k, [@ EXCEPT !.manifest = m, !.queue = rest])]
           /\ hist' = [hist EXCEPT
                  ![k].runCommitted = IF rest = <<>> THEN {}
                                      ELSE {f \in @ : d[Files(k)[f].hash] = NoEntry},
                  ![k].lastRun = IF rest = <<>> THEN "ok" ELSE @]
    /\ UNCHANGED <<auxVars, present, db, launches, convex>>

\* the process is killed (or saveManifest throws): an open transaction and
\* the in-memory manifest are lost
Crash(k) ==
    /\ proc[k].pc # "idle"
    /\ proc' = [proc EXCEPT ![k] = IdleProc(k)]
    /\ hist' = [hist EXCEPT
           ![k].orphaned = IF proc[k].pc = "committed" THEN @ \cup {proc[k].cur} ELSE @,
           ![k].runCommitted = {},
           ![k].lastRun = "killed"]
    /\ UNCHANGED <<auxVars, present, disk, db, launches, convex>>

(* --------------------------- Convex mutations -------------------------- *)
Activity(sourceId, type, source, date) ==
    [sourceId |-> sourceId, type |-> type, source |-> source, date |-> date,
     timestamp |-> IF date = "d1" THEN 1 ELSE 2]

\* activities the ingestion scripts can send; two of them share a sourceId
ActivityInputs ==
    { Activity("s1", "commit", "github", "d1"),
      Activity("s1", "pr_merged", "github", "d2"),
      Activity("s2", "session", "cass", "d1") }

Bookmark(postUrl, tweetText) == [postUrl |-> postUrl, tweetText |-> tweetText]

\* bookmarks twitter-ingest can send; they share a postUrl
BookmarkInputs == { Bookmark("p1", "a"), Bookmark("p1", "b") }

\* the argument arrays of one mutation call
Batches(S) == {<<>>} \cup {<<a>> : a \in S} \cup {<<a, b>> : a \in S, b \in S}

\* bug: the lookup compares the wrong field
FirstBySourceId_WrongField(docs, id) ==
    LET S == {i \in DOMAIN docs : docs[i].source = id}
    IN  IF S = {} THEN 0 ELSE CHOOSE i \in S : \A j \in S : i <= j

\* .withIndex("by_sourceId", q => q.eq("sourceId", id)).first()
FirstBySourceId(docs, id) ==
    LET S == {i \in DOMAIN docs : docs[i].sourceId = id}
    IN  IF S = {} THEN 0 ELSE CHOOSE i \in S : \A j \in S : i <= j

\* .withIndex("by_postUrl", q => q.eq("postUrl", url)).first()
FirstByPostUrl(docs, url) ==
    LET S == {i \in DOMAIN docs : docs[i].postUrl = url}
    IN  IF S = {} THEN 0 ELSE CHOOSE i \in S : \A j \in S : i <= j

\* the first loop of activities.batchInsert over batch[i..]
RECURSIVE InsertActivities(_, _, _)
InsertActivities(docs, batch, i) ==
    IF i > Len(batch) THEN docs
    ELSE InsertActivities(
             IF FirstBySourceId(docs, batch[i].sourceId) = 0
             THEN Append(docs, batch[i]) ELSE docs,
             batch, i + 1)

\* the loop of bookmarks.batchInsert over batch[i..]
RECURSIVE InsertBookmarks(_, _, _)
InsertBookmarks(docs, batch, i) ==
    IF i > Len(batch) THEN docs
    ELSE InsertBookmarks(
             IF FirstByPostUrl(docs, batch[i].postUrl) = 0
             THEN Append(docs, batch[i]) ELSE docs,
             batch, i + 1)

\* the level thresholds of batchInsert
Level(total) ==
    IF total >= 20 THEN 4 ELSE IF total >= 10 THEN 3
    ELSE IF total >= 5 THEN 2 ELSE IF total >= 1 THEN 1 ELSE 0

\* the aggregate batchInsert computes for a date from the activity rows
DayData(docs, date) ==
    LET day          == {i \in DOMAIN docs : docs[i].date = date}
        sessions     == Cardinality({i \in day : docs[i].source = "cass"})
        commits      == Cardinality({i \in day : docs[i].type = "commit"})
        issuesClosed == Cardinality({i \in day : docs[i].type = "issue_closed"})
        prsMerged    == Cardinality({i \in day : docs[i].type = "pr_merged"})
    IN  [date |-> date, level |-> Level(sessions + commits + issuesClosed + prsMerged),
         sessions |-> sessions, commits |-> commits, issuesClosed |-> issuesClosed,
         prsMerged |-> prsMerged, estimatedMinutes |-> sessions * 30 + commits * 5]

\* patch the first dayActivities row of the date, or insert one
UpsertDayRow(days, data) ==
    LET S == {i \in DOMAIN days : days[i].date = data.date}
    IN  IF S = {} THEN Append(days, data)
        ELSE [days EXCEPT ![CHOOSE i \in S : \A j \in S : i <= j] = data]

\* the second loop of activities.batchInsert, over the affected dates in
\* the order they were added to the Set
RECURSIVE RecomputeDays(_, _, _)
RecomputeDays(days, docs, dates) ==
    IF dates = <<>> THEN days
    ELSE RecomputeDays(UpsertDayRow(days, DayData(docs, Head(dates))), docs, Tail(dates))

\* the dates of the documents a call inserted, in insertion order, once each
RECURSIVE AffectedDates(_, _, _)
AffectedDates(docs, from, acc) ==
    IF from > Len(docs) THEN acc
    ELSE AffectedDates(docs, from + 1,
             IF \E j \in DOMAIN acc : acc[j] = docs[from].date THEN acc
             ELSE Append(acc, docs[from].date))

\* activities.batchInsert: one serializable Convex mutation
ActivitiesBatchInsert(batch) ==
    /\ launches < MaxLaunches
    /\ launches' = launches + 1
    /\ LET docs  == InsertActivities(convex.activities, batch, 1)
           dates == AffectedDates(docs, Len(convex.activities) + 1, <<>>)
       IN  convex' = [convex EXCEPT !.activities = docs,
                                    !.dayActivities = RecomputeDays(@, docs, dates)]
    /\ UNCHANGED <<auxVars, present, disk, db, proc, hist>>

\* bookmarks.batchInsert: one serializable Convex mutation
BookmarksBatchInsert(batch) ==
    /\ launches < MaxLaunches
    /\ launches' = launches + 1
    /\ convex' = [convex EXCEPT !.bookmarks = InsertBookmarks(@, batch, 1)]
    /\ UNCHANGED <<auxVars, present, disk, db, proc, hist>>

Next ==
    \/ \E k \in Kinds : \E f \in DOMAIN Files(k) : AddFile(k, f)
    \/ \E k \in Kinds : StartRun(k)
    \/ \E k \in Kinds : EmbedError(k)
    \/ \E k \in Kinds : DbError(k)
    \/ \E k \in Kinds : CommitFile(k)
    \/ \E k \in Kinds : RecordManifest(k)
    \/ \E k \in Kinds : Crash(k)

\* the ingestion scripts
Spec == Init /\ [][Next]_vars

NextStore ==
    \/ Next
    \/ \E batch \in Batches(ActivityInputs) : ActivitiesBatchInsert(batch)
    \/ \E batch \in Batches(BookmarkInputs) : BookmarksBatchInsert(batch)

\* the ingestion scripts and the Convex mutations, interleaved
SpecStore == Init /\ [][NextStore]_vars

(* -------------------- embedding backfill and transcripts ---------------- *)
Min(a, b) == IF a <= b THEN a ELSE b

\* bug: the mapping table has no primary key
MapHasKey_NoPrimaryKey(map, eid) == FALSE

\* repo_id / bookmark_id / video_id TEXT PRIMARY KEY of the mapping tables
MapHasKey(map, eid) == \E i \in DOMAIN map : map[i].eid = eid

\* LEFT JOIN <map> ON id = <map>.id WHERE <map>.id IS NULL: the pending rows
Pending(st) ==
    {r \in {st.rows[i] : i \in DOMAIN st.rows} : \A i \in DOMAIN st.map : st.map[i].eid # r.id}

\* SELECT COUNT(*) of the pending rows
pendingCount(t) == Cardinality(Pending(estore[t]))

\* the orders in which the rows of Q can be listed
Orderings(Q) ==
    {s \in [1..Cardinality(Q) -> Q] : \A i, j \in 1..Cardinality(Q) : s[i] = s[j] => i = j}

\* bug: ascending order (oldest first)
OrderedByRecency_Asc(s, rest) ==
    /\ \A i, j \in DOMAIN s : i < j => s[i].at <= s[j].at
    /\ \A r \in rest : \A i \in DOMAIN s : r.at >= s[i].at

\* ORDER BY starred_at DESC LIMIT ?: s is in descending order and no row
\* left out is more recent than a listed one (ties in either order)
OrderedByRecency(s, rest) ==
    /\ \A i, j \in DOMAIN s : i < j => s[i].at >= s[j].at
    /\ \A r \in rest : \A i \in DOMAIN s : r.at <= s[i].at

\* the results the pending query can return: up to maxItems pending rows,
\* by recency for starred_repos; the bookmark query has LIMIT without
\* ORDER BY, so SQL leaves the choice and the order of its rows open
SelectPending(t, maxItems) ==
    LET P == Pending(estore[t])
        n == Min(maxItems, Cardinality(P))
        cand == UNION {Orderings(Q) : Q \in {Q \in SUBSET P : Cardinality(Q) = n}}
    IN  IF t = "stars"
        THEN {s \in cand : OrderedByRecency(s, P \ {s[i] : i \in DOMAIN s})}
        ELSE cand

\* SELECT MAX(vec_rowid) FROM bookmark_embedding_map, 0 if the table is empty
MaxVecRowid(map) ==
    IF map = <<>> THEN 0
    ELSE CHOOSE m \in {map[i].vec : i \in DOMAIN map} :
             \A i \in DOMAIN map : map[i].vec <= m

\* bug: the vector is stored and the mapping row is not
InsertEmbedding_NoMap(t, tx, e) ==
    [tx EXCEPT !.store.vecs = Append(@, [of |-> e.id, by |-> "backfill"])]

\* insertEmbedding.run + insertMap.run for one entity.  star_embeddings takes
\* the next free rowid; the bookmark backfill passes nextRowid, which throws
\* if a vector with that rowid exists; insertMap throws on a stored key.
\* tx is the state of the transaction: its view of the tables, the next
\* explicit rowid and whether a statement threw.
InsertEmbedding(t, tx, e) ==
    LET auto  == Len(tx.store.vecs) + 1
        rowid == IF t = "bookmarks" THEN tx.nextRowid ELSE auto
        vecs  == Append(tx.store.vecs, [of |-> e.id, by |-> "backfill"])
    IN  IF rowid < auto THEN [tx EXCEPT !.failed = TRUE]
        ELSE IF MapHasKey(tx.store.map, e.id)
        THEN [tx EXCEPT !.store.vecs = vecs, !.failed = TRUE]
        ELSE [tx EXCEPT !.store.vecs = vecs,
                        !.store.map = Append(@, [eid |-> e.id, vec |-> rowid]),
                        !.nextRowid = @ + 1]

\* the loop of insertBatch / insertMany over batch[i..]
RECURSIVE insertBatch(_, _, _, _)
insertBatch(t, tx, batch, i) ==
    IF i > Len(batch) \/ tx.failed THEN tx
    ELSE insertBatch(t, InsertEmbedding(t, tx, batch[i]), batch, i + 1)

\* repos.slice(i, i + BATCH_SIZE): the group a job is working on
GroupOf(job) == SubSeq(job.sel, job.pos, Min(job.pos + BATCH_SIZE - 1, Len(job.sel)))

\* the group number of the group a job is working on
GroupNo(job) == ((job.pos - 1) \div BATCH_SIZE) + 1

\* bug: the writes made before the throw stay
RollbackGroup_Keep(t, partial) == partial

\* what db.transaction leaves when insertBatch throws: ROLLBACK
RollbackGroup(t, partial) == estore[t]

\* another process adds a row: github-stars-sync a repository (no
\* embedding), the ingestion scripts an entity with its vector and mapping
AddEntity(t, e) ==
    /\ launches < MaxLaunches
    /\ launches' = launches + 1
    /\ \A i \in DOMAIN estore[t].rows : estore[t].rows[i].id # e.id
    /\ estore' = [estore EXCEPT ![t] =
           IF t = "stars" THEN [@ EXCEPT !.rows = Append(@, e)]
           ELSE [rows |-> Append(@.rows, e),
                 vecs |-> Append(@.vecs, [of |-> e.id, by |-> "ingest"]),
                 map  |-> Append(@.map, [eid |-> e.id, vec |-> Len(@.vecs) + 1])]]
    /\ jobs' = [j \in JobIds |->
           IF jobs[j].pc # "idle" /\ jobs[j].t = t /\ t = "stars"
           THEN [jobs[j] EXCEPT !.grew = TRUE] ELSE jobs[j]]
    /\ UNCHANGED outsideEmbed

\* main() of a backfill script up to the first await generateEmbeddings:
\* count / select the pending rows, return if there are none
StartBackfill(j, t, maxItems) ==
    /\ jobs[j].pc = "idle"
    /\ launches < MaxLaunches
    /\ launches' = launches + 1
    /\ IF Pending(estore[t]) = {}
       THEN jobs' = [jobs EXCEPT ![j] = [IdleJob EXCEPT !.t = t, !.res = "ok"]]
       ELSE \E sel \in SelectPending(t, maxItems) :
                jobs' = [jobs EXCEPT ![j] =
                    [IdleJob EXCEPT !.pc = "group", !.t = t, !.limit = maxItems,
                                    !.sel = sel, !.pos = 1,
                                    !.nextRowid = MaxVecRowid(estore[t].map) + 1,
                                    !.start = pendingCount(t)]]
    /\ UNCHANGED <<estore, outsideEmbed>>

\* how a job slot is left when main() rejects in group k
JobFailed(job) == [IdleJob EXCEPT !.t = job.t, !.res = "failed", !.k = GroupNo(job)]

\* generateEmbeddings rejects for the group (provider error): main rejects,
\* nothing of the group was written
GroupEmbedError(j) ==
    /\ jobs[j].pc = "group"
    /\ jobs' = [jobs EXCEPT ![j] = JobFailed(@)]
    /\ UNCHANGED <<estore, launches, outsideEmbed>>

\* the embeddings of the group arrived and its transaction runs: it commits
\* and the loop goes on, or a statement throws, the transaction rolls back
\* and main rejects
GroupCommit(j) ==
    /\ jobs[j].pc = "group"
    /\ LET job == jobs[j]
           tx  == insertBatch(job.t, [store |-> estore[job.t], nextRowid |-> job.nextRowid,
                                      failed |-> FALSE], GroupOf(job), 1)
           pos == job.pos + BATCH_SIZE
       IN  IF tx.failed
           THEN /\ estore' = [estore EXCEPT ![job.t] = RollbackGroup(job.t, tx.store)]
                /\ jobs' = [jobs EXCEPT ![j] = JobFailed(job)]
           ELSE /\ estore' = [estore EXCEPT ![job.t] = tx.store]
                /\ jobs' = [jobs EXCEPT ![j] =
                       IF pos > Len(job.sel)
                       THEN [IdleJob EXCEPT !.t = job.t, !.res = "ok"]
                       ELSE [job EXCEPT !.pos = pos, !.nextRowid = tx.nextRowid]]
    /\ UNCHANGED <<launches, outsideEmbed>>

\* SELECT ... FROM saved_videos WHERE video_id = ?: index of the row, 0 if none
FindVideo(rows, v) ==
    LET S == {i \in DOMAIN rows : rows[i].id = v}
    IN  IF S = {} THEN 0 ELSE CHOOSE i \in S : TRUE

\* the video ids a transcript can be requested for (x1 is not stored)
VideoIds == {"v1", "v2", "x1"}

\* POST /api/videos/:videoId/transcript (and fetchTranscript of the CLI) up to
\* the first await (server) / the yt-dlp child process: 404 if the video is
\* unknown, the cached answer if it has a transcript
TranscriptStart(j, v) ==
    /\ jobs[j].pc = "idle"
    /\ launches < MaxLaunches
    /\ launches' = launches + 1
    /\ LET i == FindVideo(estore["videos"].rows, v)
       IN  IF i = 0
           THEN /\ jobs' = [jobs EXCEPT ![j] = [IdleJob EXCEPT !.t = "videos", !.res = "not_found"]]
                /\ UNCHANGED estore
           ELSE IF estore["videos"].rows[i].transcript # ""
           THEN /\ jobs' = [jobs EXCEPT ![j] = [IdleJob EXCEPT !.t = "videos", !.res = "cached"]]
                /\ UNCHANGED estore
           ELSE /\ jobs' = [jobs EXCEPT ![j] =
                       [IdleJob EXCEPT !.pc = "tr_fetch", !.t = "videos",
                                       !.sel = <<estore["videos"].rows[i]>>, !.pos = 1]]
                /\ UNCHANGED estore
    /\ UNCHANGED outsideEmbed

\* yt-dlp fails, or there are no subtitles, or they do not parse: the error
\* answer, nothing is written
TranscriptFetchError(j) ==
    /\ jobs[j].pc = "tr_fetch"
    /\ jobs' = [jobs EXCEPT ![j] = [IdleJob EXCEPT !.t = "videos", !.res = "no_subtitles"]]
    /\ UNCHANGED <<estore, launches, outsideEmbed>>

\* the subtitles were fetched and parsed: UPDATE saved_videos SET
\* transcript = ?, then the embedding is requested
TranscriptFetched(j) ==
    /\ jobs[j].pc = "tr_fetch"
    /\ LET i == FindVideo(estore["videos"].rows, jobs[j].sel[1].id)
       IN  estore' = [estore EXCEPT !["videos"].rows[i].transcript = "text"]
    /\ jobs' = [jobs EXCEPT ![j].pc = "tr_embed"]
    /\ UNCHANGED <<launches, outsideEmbed>>

\* generateEmbedding rejects: the handler throws after the transcript was
\* stored
TranscriptEmbedError(j) ==
    /\ jobs[j].pc = "tr_embed"
    /\ jobs' = [jobs EXCEPT ![j] = JobFailed(@)]
    /\ UNCHANGED <<estore, launches, outsideEmbed>>

\* SELECT vec_rowid FROM saved_video_embedding_map WHERE video_id = ?
\* (0: no row).  The statements after it are not in a transaction, so a
\* write of another process (server and CLI share the database file) can
\* come between this read and the writes.
TranscriptLookup(j) ==
    /\ jobs[j].pc = "tr_embed"
    /\ LET S == {i \in DOMAIN estore["videos"].map :
                    estore["videos"].map[i].eid = jobs[j].sel[1].id}
       IN  jobs' = [jobs EXCEPT ![j].pc = "tr_write",
                                ![j].existing = IF S = {} THEN 0
                                                ELSE estore["videos"].map[CHOOSE i \in S : TRUE].vec]
    /\ UNCHANGED <<estore, launches, outsideEmbed>>

\* if (existingMap) UPDATE the vector, else INSERT the vector and then the
\* mapping row, which throws on a stored video_id
TranscriptWrite(j) ==
    /\ jobs[j].pc = "tr_write"
    /\ LET job == jobs[j]
           st  == estore["videos"]
           v   == job.sel[1].id
           vec == [of |-> v, by |-> "transcript"]
       IN  IF job.existing # 0
           THEN /\ estore' = [estore EXCEPT !["videos"].vecs[job.existing] = vec]
                /\ jobs' = [jobs EXCEPT ![j] = [IdleJob EXCEPT !.t = "videos", !.res = "ok"]]
           ELSE IF MapHasKey(st.map, v)
           THEN /\ estore' = [estore EXCEPT !["videos"].vecs = Append(@, vec)]
                /\ jobs' = [jobs EXCEPT ![j] = JobFailed(job)]
           ELSE /\ estore' = [estore EXCEPT
                       !["videos"].vecs = Append(@, vec),
                       !["videos"].map = Append(@, [eid |-> v, vec |-> Len(st.vecs) + 1])]
                /\ jobs' = [jobs EXCEPT ![j] = [IdleJob EXCEPT !.t = "videos", !.res = "ok"]]
    /\ UNCHANGED <<launches, outsideEmbed>>

\* the process stops (kill, power loss) after INSERT INTO
\* saved_video_embeddings and before INSERT INTO saved_video_embedding_map:
\* the two statements are not in a transaction
TranscriptStop(j) ==
    /\ jobs[j].pc = "tr_write"
    /\ jobs[j].existing = 0
    /\ estore' = [estore EXCEPT
           !["videos"].vecs = Append(@, [of |-> jobs[j].sel[1].id, by |-> "transcript"])]
    /\ jobs' = [jobs EXCEPT ![j] = [IdleJob EXCEPT !.t = "videos", !.res = "killed"]]
    /\ UNCHANGED <<launches, outsideEmbed>>

NextEmbed ==
    \/ \E t \in Tables : \E e \in NewEntities(t) : AddEntity(t, e)
    \/ \E j \in JobIds : \E t \in {"stars", "bookmarks"} :
           \E maxItems \in 1..MaxItems : StartBackfill(j, t, maxItems)
    \/ \E j \in JobIds : GroupEmbedError(j)
    \/ \E j \in JobIds : GroupCommit(j)
    \/ \E j \in JobIds : \E v \in VideoIds : TranscriptStart(j, v)
    \/ \E j \in JobIds : TranscriptFetchError(j)
    \/ \E j \in JobIds : TranscriptFetched(j)
    \/ \E j \in JobIds : TranscriptEmbedError(j)
    \/ \E j \in JobIds : TranscriptLookup(j)
    \/ \E j \in JobIds : TranscriptWrite(j)
    \/ \E j \in JobIds : TranscriptStop(j)

\* the embedding backfills, the transcript requests and the processes that
\* add entities, interleaved
SpecEmbed == Init /\ [][NextEmbed]_vars

(* ----------------------------- github-stars-sync ----------------------- *)
\* a starred repository as a page of the GitHub API lists it
Repo(id, starredAt, description) == [Entity(id, starredAt) EXCEPT !.description = description]

\* what GitHub can answer: r1 with its first description, r1 after its owner
\* edited the description (the star was renewed, too), and r2
RepoInputs == { Repo("r1", 1, "a"), Repo("r1", 2, "b"), Repo("r2", 2, "a") }

\* bug: INSERT OR REPLACE, the whole row is overwritten
UpsertRepo_Replace(rows, repo) ==
    LET S == {i \in DOMAIN rows : rows[i].id = repo.id}
    IN  IF S = {} THEN Append(rows, repo)
        ELSE [rows EXCEPT ![CHOOSE i \in S : TRUE] = repo]

\* INSERT INTO starred_repos ... ON CONFLICT(github_id) DO UPDATE SET
\* description = excluded.description, ...: a stored repository keeps its
\* id, names, starred_at and imported_at and takes the arriving description
UpsertRepo(rows, repo) ==
    LET S == {i \in DOMAIN rows : rows[i].id = repo.id}
    IN  IF S = {} THEN Append(rows, repo)
        ELSE [rows EXCEPT ![CHOOSE i \in S : TRUE].description = repo.description]

\* the loop of runBatch over stars[i..]
RECURSIVE runBatch(_, _, _)
runBatch(rows, stars, i) ==
    IF i > Len(stars) THEN rows ELSE runBatch(UpsertRepo(rows, stars[i]), stars, i + 1)

\* upsertRepos(stars): one transaction for the repositories of a page
UpsertRepos(stars) ==
    /\ launches < MaxLaunches
    /\ launches' = launches + 1
    /\ estore' = [estore EXCEPT !["stars"].rows = runBatch(@, stars, 1)]
    /\ jobs' = [j \in JobIds |->
           IF jobs[j].pc # "idle" /\ jobs[j].t = "stars"
              /\ Len(estore'["stars"].rows) > Len(estore["stars"].rows)
           THEN [jobs[j] EXCEPT !.grew = TRUE] ELSE jobs[j]]
    /\ UNCHANGED outsideEmbed

NextSync ==
    \/ Next
    \/ \E stars \in Batches(RepoInputs) : UpsertRepos(stars)

\* the ingestion scripts and github-stars-sync
SpecSync == Init /\ [][NextSync]_vars

(* ------------------ github-stars-sync: fetching the pages --------------- *)
\* pages of starred repositories explored
MaxPages == 2
\* the default of the parameter maxRetries; the only call passes no value
maxRetries == 5

\* the messages execSync and JSON.parse can throw with: the seven markers the
\* catch block looks for, and two messages without any of them
ErrorInputs ==
    {"502", "503", "stream error", "CANCEL", "timeout", "403", "rate limit",
     "401 Bad credentials", "Unexpected end of JSON input"}

\* msg.includes("403") || msg.includes("rate limit")
isRateLimit(msg) == msg \in {"403", "rate limit"}

\* msg.includes("502") || ... || msg.includes("timeout") || isRateLimit
isRetryable(msg) ==
    msg \in {"502", "503", "stream error", "CANCEL", "timeout"} \/ isRateLimit(msg)

\* bug: the last attempt is retried, too
ShouldRetry_Inclusive(attempt, msg) == attempt <= maxRetries /\ isRetryable(msg)

\* if (attempt < maxRetries && isRetryable)
ShouldRetry(attempt, msg) == attempt < maxRetries /\ isRetryable(msg)

\* main() -> fetchAndSaveStars() -> fetchPageWithRetry(null): attempt = 1
FetchStart ==
    /\ fetch.pc = "idle"
    /\ fetch' = [pc |-> "exec", page |-> 1, attempt |-> 1, err |-> ""]
    /\ UNCHANGED <<ingestVars, embedVars, searchVars, launches, drafts, vtt, readme>>

\* execSync returned and JSON.parse parsed: return the page
ExecSucceeds ==
    /\ fetch.pc = "exec"
    /\ fetch' = [fetch EXCEPT !.pc = "returned"]
    /\ UNCHANGED <<ingestVars, embedVars, searchVars, launches, drafts, vtt, readme>>

\* execSync or JSON.parse threw: wait and continue, or rethrow, which ends
\* fetchAndSaveStars and main
ExecFails(msg) ==
    /\ fetch.pc = "exec"
    /\ fetch' = [fetch EXCEPT !.err = msg,
                              !.pc = IF ShouldRetry(fetch.attempt, msg) THEN "sleep"
                                     ELSE "thrown"]
    /\ UNCHANGED <<ingestVars, embedVars, searchVars, launches, drafts, vtt, readme>>

\* the delay elapsed: continue, attempt++, and the loop condition
\* attempt <= maxRetries; the function returns undefined if it fails
Backoff ==
    /\ fetch.pc = "sleep"
    /\ fetch' = [fetch EXCEPT !.attempt = @ + 1,
                              !.pc = IF fetch.attempt + 1 <= maxRetries THEN "exec"
                                     ELSE "undefined"]
    /\ UNCHANGED <<ingestVars, embedVars, searchVars, launches, drafts, vtt, readme>>

\* fetchAndSaveStars after the page was saved: break if it was the last one,
\* else fetchPageWithRetry(endCursor)
PageSaved(hasNextPage) ==
    /\ fetch.pc = "returned"
    /\ hasNextPage => fetch.page < MaxPages
    /\ fetch' = IF hasNextPage
                THEN [pc |-> "exec", page |-> fetch.page + 1, attempt |-> 1, err |-> ""]
                ELSE [fetch EXCEPT !.pc = "done"]
    /\ UNCHANGED <<ingestVars, embedVars, searchVars, launches, drafts, vtt, readme>>

NextFetch ==
    \/ FetchStart
    \/ ExecSucceeds
    \/ \E msg \in ErrorInputs : ExecFails(msg)
    \/ Backoff
    \/ \E hasNextPage \in BOOLEAN : PageSaved(hasNextPage)

\* a run of github-stars-sync as far as its requests go
SpecFetch == Init /\ [][NextFetch]_vars

(* ----------------------------- github-readme-fetch --------------------- *)
\* BATCH_SIZE of github-readme-fetch, read from the environment (default 45):
\* the script run with BATCH_SIZE=2
README_BATCH_SIZE == 2

\* WHERE readme_content IS NULL AND has_readme = 1
ReadmePending ==
    {r \in DOMAIN StarredAt : readme.rows[r].content = "NULL" /\ readme.rows[r].has = 1}

\* SELECT id, full_name ... ORDER BY starred_at DESC LIMIT ?: the results the
\* query can return
SelectReadmes ==
    LET P == {[id |-> r, at |-> StarredAt[r]] : r \in ReadmePending}
        n == Min(README_BATCH_SIZE, Cardinality(P))
        cand == UNION {Orderings(Q) : Q \in {Q \in SUBSET P : Cardinality(Q) = n}}
    IN  {s \in cand : OrderedByRecency(s, P \ {s[i] : i \in DOMAIN s})}

\* main() up to the loop: return if nothing is pending, else select
ReadmeStart ==
    /\ readme.pc = "idle"
    /\ IF ReadmePending = {}
       THEN readme' = [readme EXCEPT !.result = "all_fetched"]
       ELSE \E repos \in SelectReadmes :
                readme' = [readme EXCEPT !.pc = "loop", !.repos = repos, !.result = ""]
    /\ UNCHANGED <<ingestVars, embedVars, searchVars, launches, drafts, vtt, fetch>>

\* the rest of a loop iteration: the next repository, or the end of main()
ReadmeNext(rows) ==
    [rows |-> rows,
     pc |-> IF Len(readme.repos) > 1 THEN "loop" ELSE "idle",
     repos |-> Tail(readme.repos),
     result |-> IF Len(readme.repos) > 1 THEN "" ELSE "done"]

\* gh api repos/<full_name>/readme succeeded: the content is stored
ReadmeFetched ==
    /\ readme.pc = "loop"
    /\ readme' = ReadmeNext([readme.rows EXCEPT ![Head(readme.repos).id] =
                      [content |-> "text", has |-> 1, fetchedAt |-> "now"]])
    /\ UNCHANGED <<ingestVars, embedVars, searchVars, launches, drafts, vtt, fetch>>

\* execSync threw: readme_content stays NULL, has_readme becomes 0 if the
\* message holds "404" or "Not Found" and 1 otherwise
ReadmeFailed(msg) ==
    /\ readme.pc = "loop"
    /\ LET is404 == msg \in {"404", "Not Found"}
       IN  readme' = ReadmeNext([readme.rows EXCEPT ![Head(readme.repos).id] =
                         [content |-> "NULL", has |-> IF is404 THEN 0 ELSE 1,
                          fetchedAt |-> "now"]])
    /\ UNCHANGED <<ingestVars, embedVars, searchVars, launches, drafts, vtt, fetch>>

NextReadme ==
    \/ ReadmeStart
    \/ ReadmeFetched
    \/ \E msg \in {"404", "Not Found", "ENOBUFS"} : ReadmeFailed(msg)

\* github-readme-fetch run again and again (launchd starts it every few
\* hours); a run that started goes on to its end
SpecReadme ==
    Init /\ [][NextReadme]_vars /\ WF_vars(ReadmeStart)
         /\ WF_vars(ReadmeFetched \/ \E msg \in {"404", "Not Found", "ENOBUFS"} : ReadmeFailed(msg))

(* --------------------------- retrieval endpoints ------------------------ *)
\* documents indexed at most
MaxDocs == 3
\* largest limit a request passes
MaxLimit == 2

\* a row of starred_repos / saved_videos / bookmarks as retrieval sees it:
\* natural key, recency (starred_at, saved_at), the column an equality filter
\* compares (primary_language, source, channel_name), stargazers_count, the
\* terms the full-text index holds, and the position of its embedding
\* (NoEmbedding: the entity has no mapping row)
NoEmbedding == -1
Doc(id, at, tag, stars, words, pos) ==
    [id |-> id, at |-> at, tag |-> tag, stars |-> stars, words |-> words, pos |-> pos, vec |-> 0]

\* the entities that can be stored; e2 and e3 have the same embedding and the
\* same recency, e4 has no embedding
DocInputs ==
    { Doc("e1", 1, "x", 5,  {"w"},      0),
      Doc("e2", 2, "y", 50, {"w"},      2),
      Doc("e3", 2, "y", 5,  {"w", "z"}, 2),
      Doc("e4", 3, "x", 50, {"z"},      NoEmbedding) }

\* the embeddings generateEmbedding can return for a query string
QueryVecs == {0, 2}
\* the q parameter of the full-text endpoints ("": absent or empty)
QueryTexts == {"", "w", "z"}
\* values of an equality filter ("": not supplied) and of minStars (0: not
\* supplied)
TagFilters == {"", "x", "y"}
MinStarsFilters == {0, 10}
\* natural keys a similar request can name (e9 is not stored)
KeyInputs == {"e1", "e2", "e3", "e4", "e9"}

\* the distance between two embeddings
Distance(a, b) == IF a >= b THEN a - b ELSE b - a

\* SELECT rowid, distance FROM <vectors> WHERE embedding MATCH ? ORDER BY
\* distance LIMIT k: the k nearest stored vectors, nearest first; vectors at
\* the same distance come in either order
KNN(vecs, q, k) ==
    LET n == Min(k, Len(vecs))
        cand == UNION {Orderings(Q) : Q \in {Q \in SUBSET DOMAIN vecs : Cardinality(Q) = n}}
    IN  {s \in cand :
            /\ \A i, j \in DOMAIN s : i < j => Distance(q, vecs[s[i]]) <= Distance(q, vecs[s[j]])
            /\ \A r \in DOMAIN vecs : r \notin {s[i] : i \in DOMAIN s} =>
                   \A i \in DOMAIN s : Distance(q, vecs[r]) >= Distance(q, vecs[s[i]])}

\* if (lang) AND primary_language = ? / if (source) AND source = ? ;
\* if (minStars) AND stargazers_count >= ?
FilterOk(d, tag, minStars) ==
    /\ tag # "" => d.tag = tag
    /\ minStars > 0 => d.stars >= minStars

\* rows.sort((a, b) => a.distance - b.distance): a stable sort, so rows at
\* the same distance keep the order of the SELECT
RECURSIVE SortByDistance(_)
SortByDistance(rows) ==
    IF rows = <<>> THEN <<>>
    ELSE LET rest == SortByDistance(Tail(rows))
             h    == Head(rows)
             n    == Cardinality({i \in DOMAIN rest : rest[i].distance < h.distance})
         IN  SubSeq(rest, 1, n) \o <<h>> \o SubSeq(rest, n + 1, Len(rest))

\* .slice(0, n)
Slice(s, n) == SubSeq(s, 1, Min(n, Len(s)))

\* SELECT e.*, m.vec_rowid FROM <entities> e JOIN <map> m ... WHERE
\* m.vec_rowid IN (rowids) [AND filters], with the distance of its vector
JoinRows(c, q, rowids, tag, minStars) ==
    LET hit == SelectSeq(c.docs, LAMBDA d :
                   d.vec # 0 /\ (\E i \in DOMAIN rowids : rowids[i] = d.vec)
                   /\ FilterOk(d, tag, minStars))
    IN  [i \in DOMAIN hit |-> [id |-> hit[i].id, distance |-> Distance(q, c.vecs[hit[i].vec])]]

\* bug: the vector query fetches limit rows
OverFetch_None(limit) == limit

\* the LIMIT of the vector query of semantic search: limit * 2
OverFetch(limit) == limit * 2

\* the response of POST /api/stars/semantic and /api/videos/semantic (and of
\* tweets semantic), given the rows vecResults of the vector query
semanticSearch(c, q, tag, minStars, limit, vecResults) ==
    IF vecResults = <<>> THEN <<>>
    ELSE Slice(SortByDistance(JoinRows(c, q, vecResults, tag, minStars)), limit)

\* SELECT m.vec_rowid FROM <entities> e JOIN <map> m WHERE <natural key> = ?:
\* the vector rowid of the entity, 0 if the key is not stored or not mapped
MappingOf(c, key) ==
    LET S == {i \in DOMAIN c.docs : c.docs[i].id = key /\ c.docs[i].vec # 0}
    IN  IF S = {} THEN 0 ELSE c.docs[CHOOSE i \in S : TRUE].vec

\* bug: the entity's own vector is not taken out
ExcludeSelf_Keep(vecResults, self) == vecResults

\* vecResults.filter((r) => r.rowid !== mapping.vec_rowid)
ExcludeSelf(vecResults, self) == SelectSeq(vecResults, LAMBDA r : r # self)

\* the response of POST /api/bookmarks/similar and /api/stars/similar (and
\* of tweets similar), given the rows vecResults of the vector query
similar(c, self, limit, vecResults) ==
    LET rowids == Slice(ExcludeSelf(vecResults, self), limit)
    IN  IF rowids = <<>> THEN <<>>
        ELSE SortByDistance(JoinRows(c, c.vecs[self], rowids, "", 0))

\* the responses of GET /api/stars/search and /api/videos/search.  Without q
\* the most recent rows are returned and the filters are not applied; with q
\* the rows matching q and the filters, best bm25 score first (the score is
\* left open: any order of any limit of them)
fullTextSearch(c, text, tag, minStars, limit) ==
    LET all == {c.docs[i] : i \in DOMAIN c.docs}
        hit == {d \in all : text \in d.words /\ FilterOk(d, tag, minStars)}
        from == IF text = "" THEN all ELSE hit
        n == Min(limit, Cardinality(from))
        cand == UNION {Orderings(Q) : Q \in {Q \in SUBSET from : Cardinality(Q) = n}}
    IN  IF text = ""
        THEN {s \in cand : OrderedByRecency(s, from \ {s[i] : i \in DOMAIN s})}
        ELSE cand

\* an ingestion stores an entity, with its vector and mapping row if it has
\* an embedding; the responses given before are responses to an older corpus
Index(d) ==
    /\ Len(corpus.docs) < MaxDocs
    /\ \A i \in DOMAIN corpus.docs : corpus.docs[i].id # d.id
    /\ corpus' =
           IF d.pos = NoEmbedding THEN [corpus EXCEPT !.docs = Append(@, d)]
           ELSE [docs |-> Append(corpus.docs, [d EXCEPT !.vec = Len(corpus.vecs) + 1]),
                 vecs |-> Append(corpus.vecs, d.pos)]
    /\ answer' = NoAnswer
    /\ UNCHANGED outsideSearch

\* POST /api/stars/semantic, POST /api/videos/semantic, tweets semantic
SemanticSearch(q, tag, minStars, limit) ==
    /\ \E vecResults \in KNN(corpus.vecs, q, OverFetch(limit)) :
           answer' = [NoAnswer EXCEPT !.op = "semantic", !.q = q, !.tag = tag,
                          !.minStars = minStars, !.limit = limit,
                          !.result = semanticSearch(corpus, q, tag, minStars, limit, vecResults)]
    /\ UNCHANGED <<corpus, outsideSearch>>

\* POST /api/bookmarks/similar, POST /api/stars/similar, tweets similar
Similar(key, limit) ==
    /\ LET self == MappingOf(corpus, key)
       IN  IF self = 0
           THEN answer' = [NoAnswer EXCEPT !.op = "similar", !.key = key, !.limit = limit]
           ELSE \E vecResults \in KNN(corpus.vecs, corpus.vecs[self], limit + 1) :
                    answer' = [NoAnswer EXCEPT !.op = "similar", !.key = key, !.limit = limit,
                                   !.result = similar(corpus, self, limit, vecResults)]
    /\ UNCHANGED <<corpus, outsideSearch>>

\* GET /api/stars/search, GET /api/videos/search
FullTextSearch(text, tag, minStars, limit) ==
    /\ \E rows \in fullTextSearch(corpus, text, tag, minStars, limit) :
           answer' = [NoAnswer EXCEPT !.op = "fulltext", !.text = text, !.tag = tag,
                          !.minStars = minStars, !.limit = limit,
                          !.result = [i \in DOMAIN rows |-> [id |-> rows[i].id, distance |-> 0]]]
    /\ UNCHANGED <<corpus, outsideSearch>>

NextSearch ==
    \/ \E d \in DocInputs : Index(d)
    \/ \E q \in QueryVecs : \E tag \in TagFilters : \E minStars \in MinStarsFilters :
           \E limit \in 1..MaxLimit : SemanticSearch(q, tag, minStars, limit)
    \/ \E key \in KeyInputs : \E limit \in 1..MaxLimit : Similar(key, limit)
    \/ \E text \in QueryTexts : \E tag \in TagFilters : \E minStars \in MinStarsFilters :
           \E limit \in 1..MaxLimit : FullTextSearch(text, tag, minStars, limit)

\* the retrieval endpoints over a growing corpus
SpecSearch == Init /\ [][NextSearch]_vars

(* ---------------------- Convex aggregates and drafts -------------------- *)
\* the arguments `before` of deleteBySource
BeforeInputs == {2, 3}
\* the sources deleteBySource is called with
SourceInputs == {"github", "cass"}
Dates == {"d1", "d2"}

\* rows a caller passes to dayActivities.upsertDay: the aggregate of an empty
\* day and that of a day with one commit
DayInputs ==
    { [date |-> d, level |-> c, sessions |-> 0, commits |-> c, issuesClosed |-> 0,
       prsMerged |-> 0, estimatedMinutes |-> 5 * c] : d \in Dates, c \in {0, 1} }

\* activities.deleteBySource: the rows of the source older than `before` are
\* deleted; dayActivities is not written
ActivitiesDeleteBySource(source, before) ==
    /\ launches < MaxLaunches
    /\ launches' = launches + 1
    /\ convex' = [convex EXCEPT !.activities =
           SelectSeq(@, LAMBDA a : ~(a.source = source /\ a.timestamp < before))]
    /\ UNCHANGED <<auxVars, present, disk, db, proc, hist>>

\* bug: the thresholds are compared with > (a day of 5 gets level 1)
RecalcLevel_Exclusive(totalActivity) ==
    IF totalActivity > 20 THEN 4 ELSE IF totalActivity > 10 THEN 3
    ELSE IF totalActivity > 5 THEN 2 ELSE IF totalActivity > 1 THEN 1 ELSE 0

\* the level thresholds of recalculateDay
RecalcLevel(totalActivity) ==
    IF totalActivity >= 20 THEN 4 ELSE IF totalActivity >= 10 THEN 3
    ELSE IF totalActivity >= 5 THEN 2 ELSE IF totalActivity >= 1 THEN 1 ELSE 0

\* the aggregate recalculateDay computes for a date from the activity rows
RecalcDayData(docs, date) ==
    LET activities   == SelectSeq(docs, LAMBDA a : a.date = date)
        sessions     == Len(SelectSeq(activities, LAMBDA a : a.source = "cass"))
        commits      == Len(SelectSeq(activities, LAMBDA a : a.type = "commit"))
        issuesClosed == Len(SelectSeq(activities, LAMBDA a : a.type = "issue_closed"))
        prsMerged    == Len(SelectSeq(activities, LAMBDA a : a.type = "pr_merged"))
        totalActivity == sessions + commits + issuesClosed + prsMerged
    IN  [date |-> date, level |-> RecalcLevel(totalActivity),
         sessions |-> sessions, commits |-> commits, issuesClosed |-> issuesClosed,
         prsMerged |-> prsMerged, estimatedMinutes |-> sessions * 30 + commits * 5]

\* dayActivities.recalculateDay: the aggregate of the date is computed from
\* the activity rows and patched or inserted
RecalculateDay(date) ==
    /\ launches < MaxLaunches
    /\ launches' = launches + 1
    /\ convex' = [convex EXCEPT !.dayActivities =
           UpsertDayRow(@, RecalcDayData(convex.activities, date))]
    /\ UNCHANGED <<auxVars, present, disk, db, proc, hist>>

\* dayActivities.upsertDay: the row of the date is patched with, or inserted
\* from, the caller's values
UpsertDay(args) ==
    /\ launches < MaxLaunches
    /\ launches' = launches + 1
    /\ convex' = [convex EXCEPT !.dayActivities = UpsertDayRow(@, args)]
    /\ UNCHANGED <<auxVars, present, disk, db, proc, hist>>

NextAggregate ==
    \/ \E batch \in Batches(ActivityInputs) : ActivitiesBatchInsert(batch)
    \/ \E source \in SourceInputs : \E before \in BeforeInputs :
           ActivitiesDeleteBySource(source, before)
    \/ \E date \in Dates : RecalculateDay(date)
    \/ \E args \in DayInputs : UpsertDay(args)

\* the Convex mutations that write activities and dayActivities
SpecAggregate == Init /\ [][NextAggregate]_vars

\* commits on a day at most, in the activity tables the thresholds are
\* explored on
MaxCommits == 17

\* the activity rows of a day d1 with the given numbers of commits, cass
\* sessions, closed issues and merged pull requests
DayLoad(c, s, i, p) ==
    [n \in 1..(c + s + i + p) |->
        IF n <= c THEN Activity("c" \o ToString(n), "commit", "github", "d1")
        ELSE IF n <= c + s THEN Activity("k" \o ToString(n), "session", "cass", "d1")
        ELSE IF n <= c + s + i THEN Activity("i" \o ToString(n), "issue_closed", "github", "d1")
        ELSE Activity("p" \o ToString(n), "pr_merged", "github", "d1")]

\* a deployment that holds the activity rows of a day and no aggregate yet
InitLevel ==
    /\ InitBase
    /\ corpus = EmptyCorpus
    /\ vtt = NoVtt
    /\ \E c \in 0..MaxCommits : \E s, i, p \in 0..1 :
           convex = [EmptyConvex EXCEPT !.activities = DayLoad(c, s, i, p)]

NextLevel ==
    \/ \E batch \in Batches(ActivityInputs) : ActivitiesBatchInsert(batch)
    \/ \E date \in Dates : RecalculateDay(date)

\* the two mutations that derive the aggregate of a day, over days of
\* every size up to the highest threshold
SpecLevel == InitLevel /\ [][NextLevel]_vars

\* the status values of a draft, in their order
Statuses == <<"pending_review", "reviewed", "published">>
\* the status a request can carry ("": none, POST /api/blog-drafts only)
StatusInputs == {"", "pending_review", "reviewed", "published"}
ContentInputs == {"a", "b"}

\* blogDrafts.create (Convex) and POST /api/blog-drafts (SQLite): the draft
\* of the week is overwritten (content, status, createdAt) or inserted; the
\* API puts "pending_review" where the body has no status
DraftCreate(s, w, content, status) ==
    /\ launches < MaxLaunches
    /\ launches' = launches + 1
    /\ s = "convex" => status # ""
    /\ LET st == IF status = "" THEN "pending_review" ELSE status
       IN  drafts' = [drafts EXCEPT ![s][w] =
               IF @ = NoDraft
               THEN [status |-> st, content |-> content, createdAt |-> now,
                     publishedAt |-> NoTime]
               ELSE [@ EXCEPT !.content = content, !.status = st, !.createdAt = now]]
    /\ UNCHANGED outsideDrafts

\* blogDrafts.updateStatus (Convex) and PATCH /api/blog-drafts/by-week/:w
\* (SQLite): the status of the week's draft is set, and publishedAt too if
\* the status is "published"; nothing happens if the week has no draft
DraftUpdateStatus(s, w, status) ==
    /\ launches < MaxLaunches
    /\ launches' = launches + 1
    /\ status # ""
    /\ drafts' = [drafts EXCEPT ![s][w] =
           IF @ = NoDraft THEN @
           ELSE [@ EXCEPT !.status = status,
                          !.publishedAt = IF status = "published" THEN now ELSE @]]
    /\ UNCHANGED outsideDrafts

NextDrafts ==
    \/ \E s \in DraftStores : \E w \in Weeks : \E content \in ContentInputs :
           \E status \in StatusInputs : DraftCreate(s, w, content, status)
    \/ \E s \in DraftStores : \E w \in Weeks : \E status \in StatusInputs :
           DraftUpdateStatus(s, w, status)

\* the operations that write blog drafts
SpecDrafts == Init /\ [][NextDrafts]_vars

(* ------------------------ transcripts: parse and chunk ------------------ *)
\* lines of a subtitle file explored
MaxLines == 5

\* a string is the sequence of its characters; Tag stands for a markup tag
\* such as <c> or <00:00:01.000>
Space == " "
Tag == "<c>"

\* a line "hh:mm:ss.mmm --> hh:mm:ss.mmm" and any other line
Cue(start) == [kind |-> "time", start |-> start, end |-> start + 1, text |-> <<>>]
Text(chars) == [kind |-> "text", start |-> 0, end |-> 0, text |-> chars]
\* a line "WEBVTT", "Kind: ...", "Language: ..." or a cue number
Header == [kind |-> "header", start |-> 0, end |-> 0, text |-> <<"W">>]

\* the lines a subtitle file is made of: cues, text with and without markup,
\* a line of markup only, a blank line, a header
LineInputs ==
    { Cue(0), Cue(1), Cue(2), Text(<<"a">>), Text(<<Space, Tag, "b", Space, Tag>>),
      Text(<<Tag>>), Header }

\* transcriptChunkSizeSeconds of the configuration
ChunkSizes == {1, 2}

Segment(start, end, text) == [startSeconds |-> start, endSeconds |-> end, text |-> text]

\* String.prototype.trim
RECURSIVE Trim(_)
Trim(chars) ==
    IF chars = <<>> THEN <<>>
    ELSE IF Head(chars) = Space THEN Trim(Tail(chars))
    ELSE IF chars[Len(chars)] = Space THEN Trim(SubSeq(chars, 1, Len(chars) - 1))
    ELSE chars

\* line.replace(/<[^>]+>/g, "").trim()
Clean(chars) == Trim(SelectSeq(chars, LAMBDA c : c # Tag))

\* one iteration of the loop of parseVTT; p holds segments, currentStart,
\* currentEnd and currentText
ParseLine(p, line) ==
    IF line.kind = "time"
    THEN [segments |-> IF p.currentText # <<>>
                       THEN Append(p.segments,
                                Segment(p.currentStart, p.currentEnd, Trim(p.currentText)))
                       ELSE p.segments,
          currentStart |-> line.start, currentEnd |-> line.end, currentText |-> <<>>]
    ELSE IF Trim(line.text) # <<>> /\ line.kind # "header" /\ Clean(Trim(line.text)) # <<>>
    THEN [p EXCEPT !.currentText =
             (IF @ # <<>> THEN @ \o <<Space>> ELSE @) \o Clean(Trim(line.text))]
    ELSE p

RECURSIVE ParseLines(_, _, _)
ParseLines(p, lines, i) ==
    IF i > Len(lines) THEN p ELSE ParseLines(ParseLine(p, lines[i]), lines, i + 1)

\* parseVTT(content): the captions of a subtitle file
parseVTT(lines) ==
    LET p == ParseLines([segments |-> <<>>, currentStart |-> 0, currentEnd |-> 0,
                         currentText |-> <<>>], lines, 1)
    IN  IF p.currentText # <<>>
        THEN Append(p.segments, Segment(p.currentStart, p.currentEnd, Trim(p.currentText)))
        ELSE p.segments

\* bug: the caption that opens a window is left out of it
StartChunk_Empty(seg) == Segment(seg.startSeconds, seg.endSeconds, <<>>)

\* currentChunk = { startSeconds: seg.startSeconds, endSeconds: seg.endSeconds,
\* text: seg.text }
StartChunk(seg) == Segment(seg.startSeconds, seg.endSeconds, seg.text)

\* one iteration of the loop of chunkSegments; c holds chunks and currentChunk
ChunkStep(c, seg, chunkSizeSeconds) ==
    IF seg.startSeconds - c.currentChunk.startSeconds >= chunkSizeSeconds
    THEN [chunks |-> IF c.currentChunk.text # <<>> THEN Append(c.chunks, c.currentChunk)
                     ELSE c.chunks,
          currentChunk |-> StartChunk(seg)]
    ELSE [c EXCEPT !.currentChunk.endSeconds = seg.endSeconds,
                   !.currentChunk.text = (IF @ # <<>> THEN @ \o <<Space>> ELSE @) \o seg.text]

RECURSIVE ChunkLoop(_, _, _, _)
ChunkLoop(c, segments, i, chunkSizeSeconds) ==
    IF i > Len(segments) THEN c
    ELSE ChunkLoop(ChunkStep(c, segments[i], chunkSizeSeconds), segments, i + 1,
                   chunkSizeSeconds)

\* chunkSegments(segments, chunkSizeSeconds): the windows of a transcript
chunkSegments(segments, chunkSizeSeconds) ==
    IF segments = <<>> THEN <<>>
    ELSE LET c == ChunkLoop([chunks |-> <<>>,
                             currentChunk |-> Segment(segments[1].startSeconds,
                                                      segments[1].endSeconds, <<>>)],
                            segments, 1, chunkSizeSeconds)
         IN  IF c.currentChunk.text # <<>> THEN Append(c.chunks, c.currentChunk)
             ELSE c.chunks

\* texts.join(" ")
RECURSIVE JoinTexts(_)
JoinTexts(texts) ==
    IF texts = <<>> THEN <<>>
    ELSE IF Len(texts) = 1 THEN texts[1]
    ELSE texts[1] \o <<Space>> \o JoinTexts(Tail(texts))

\* the subtitle files yt-dlp can leave in the temporary directory
VttInputs ==
    {[NoVtt EXCEPT !.pc = "fetched", !.lines = l, !.chunkSize = c] :
        l \in UNION {[1..n -> LineInputs] : n \in 0..MaxLines}, c \in ChunkSizes}

\* rawSegments = parseVTT(vttContent)
ParseSubtitles ==
    /\ vtt.pc = "fetched"
    /\ vtt' = [vtt EXCEPT !.pc = "parsed", !.segments = parseVTT(vtt.lines)]
    /\ UNCHANGED <<ingestVars, embedVars, searchVars, launches, drafts, fetch, readme>>

\* chunks = chunkSegments(rawSegments, chunkSize), for a video longer than
\* the threshold whose subtitles parsed to at least one caption
ChunkTranscript ==
    /\ vtt.pc = "parsed"
    /\ vtt.segments # <<>>
    /\ vtt' = [vtt EXCEPT !.pc = "chunked",
                          !.chunks = chunkSegments(vtt.segments, vtt.chunkSize)]
    /\ UNCHANGED <<ingestVars, embedVars, searchVars, launches, drafts, fetch, readme>>

NextChunk ==
    \/ ParseSubtitles
    \/ ChunkTranscript

InitChunk ==
    /\ InitBase
    /\ convex = EmptyConvex
    /\ corpus = EmptyCorpus
    /\ vtt \in VttInputs

\* parsing and chunking of the subtitle files
SpecChunk == InitChunk /\ [][NextChunk]_vars

(* ------------------------------ properties ----------------------------- *)
Range(seq) == {seq[i] : i \in DOMAIN seq}
HashOf(k, f) == Files(k)[f].hash
KeysOfFile(k, f) == {r.key : r \in Range(Files(k)[f].records)}
StoredKeys(rows) == {r.key : r \in Range(rows)}
\* the step in which processFile of script k commits its transaction
Commits(k) == proc[k].pc = "embed" /\ proc'[k].pc = "committed"

\* C1: the entity tables never hold two rows with the same natural key
\* (post_url, video_id; sourceId and postUrl in Convex), whatever runs,
\* crashes and mutation calls came before
C1_NaturalKeyUnique ==
    /\ \A k \in Kinds : \A i, j \in DOMAIN db[k].rows :
           db[k].rows[i].key = db[k].rows[j].key => i = j
    /\ \A i, j \in DOMAIN convex.activities :
           convex.activities[i].sourceId = convex.activities[j].sourceId => i = j
    /\ \A i, j \in DOMAIN convex.bookmarks :
           convex.bookmarks[i].postUrl = convex.bookmarks[j].postUrl => i = j

\* the tweet export that lists u1 twice was ingested, and both Convex
\* mutations stored something
C1_Witness ==
    /\ Len(db["twitter"].rows) = 2
    /\ Len(convex.activities) >= 1
    /\ Len(convex.bookmarks) >= 1

\* C2: when processFile commits, a record counted as inserted is a first
\* occurrence of a key that was not stored, one counted as upgraded is a first
\* occurrence of a key stored with the other single channel, every other
\* record is skipped, and the three counters add up to the number of records
C2_OutcomePerRecord ==
    [][\A k \in Kinds : Commits(k) =>
        LET file  == Files(k)[proc[k].cur]
            recs  == file.records
            first(i) == \A j \in 1..(i - 1) : recs[j].key # recs[i].key
            stored(i) == {r \in Range(db[k].rows) : r.key = recs[i].key}
            ins   == {i \in DOMAIN recs : first(i) /\ stored(i) = {}}
            upg   == {i \in DOMAIN recs : first(i) /\
                        \E r \in stored(i) : r.source # file.source /\ r.source # Both}
        IN  /\ proc'[k].inserted = Cardinality(ins)
            /\ proc'[k].upgraded = Cardinality(upg)
            /\ proc'[k].skipped = Len(recs) - Cardinality(ins) - Cardinality(upg)
            /\ proc'[k].inserted + proc'[k].upgraded + proc'[k].skipped = Len(recs)
            /\ Len(db'[k].rows) = Len(db[k].rows) + Cardinality(ins)
    ]_vars

\* a file was committed with upgraded and skipped records
C2_Witness ==
    \E k \in Kinds : proc[k].pc = "committed" /\ proc[k].upgraded >= 1 /\ proc[k].skipped >= 1

\* the stored rows an arriving file upgrades
Upgraded(k, f) ==
    {i \in DOMAIN db[k].rows :
        /\ db[k].rows[i].key \in KeysOfFile(k, f)
        /\ db[k].rows[i].source # Files(k)[f].source
        /\ db[k].rows[i].source # Both}

\* C3 as stated: an upgrade changes nothing of the row but the provenance,
\* and no other stored row changes
C3_OnlyProvenanceChanges ==
    [][\A k \in Kinds : Commits(k) =>
        \A i \in DOMAIN db[k].rows :
            db'[k].rows[i] = IF i \in Upgraded(k, proc[k].cur)
                             THEN [db[k].rows[i] EXCEPT !.source = Both]
                             ELSE db[k].rows[i]
    ]_vars

\* C3 amended: an upgrade sets the provenance to 'both' and, for a saved
\* video, updated_at to the current timestamp; every other column of the row,
\* every other stored row and every stored vector and mapping row stay
C3_UpgradeFrame ==
    [][\A k \in Kinds : Commits(k) =>
        /\ \A i \in DOMAIN db[k].rows :
            db'[k].rows[i] =
                IF i \in Upgraded(k, proc[k].cur)
                THEN [db[k].rows[i] EXCEPT !.source = Both,
                                           !.upd = IF k = "youtube" THEN now ELSE @]
                ELSE db[k].rows[i]
        /\ \A i \in DOMAIN db[k].vecs : db'[k].vecs[i] = db[k].vecs[i]
        /\ \A i \in DOMAIN db[k].map : db'[k].map[i] = db[k].map[i]
    ]_vars

\* a saved video was upgraded in a later run than the one that inserted it
C3_Witness ==
    \E i \in DOMAIN db["youtube"].rows :
        /\ db["youtube"].rows[i].source = Both
        /\ db["youtube"].rows[i].upd # db["youtube"].rows[i].at

\* C4: the provenance of a stored row stays, or goes from a single channel
\* to 'both'; the row is never removed
C4_ProvenanceMonotone ==
    [][\A k \in Kinds : \A i \in DOMAIN db[k].rows :
        /\ i \in DOMAIN db'[k].rows
        /\ \/ db'[k].rows[i].source = db[k].rows[i].source
           \/ db[k].rows[i].source # Both /\ db'[k].rows[i].source = Both
    ]_vars

\* a tweet has been merged
C4_Witness ==
    \E i \in DOMAIN db["twitter"].rows : db["twitter"].rows[i].source = Both

\* C5: after a run that completed, and as long as no file is added, a further
\* run returns at once: it selects no file and writes neither the tables nor
\* the manifest
C5_SecondPassNoOp ==
    [][\A k \in Kinds : hist[k].lastRun = "ok" =>
        \/ hist'[k].lastRun = "none"
        \/ /\ proc'[k].pc = "idle"
           /\ proc'[k].queue = <<>>
           /\ db'[k] = db[k]
           /\ disk'[k] = disk[k]
    ]_vars

\* twitter-ingest ran twice and nothing else ran: the first run recorded the
\* export, the second one returned at once
C5_Witness ==
    /\ hist["twitter"].lastRun = "ok"
    /\ launches = 2
    /\ hist["youtube"].lastRun = "none" /\ present["youtube"] = {}
    /\ disk["twitter"]["h1"].processedAt = 1

\* C6 as stated: processFile never starts on a file whose hash has an entry
\* in the manifest
C6_RecordedHashNotReprocessed ==
    \A k \in Kinds :
        proc[k].pc = "embed" => disk[k][HashOf(k, proc[k].cur)] = NoEntry

\* C7: at most one file has committed in the running process without its
\* entry being in the manifest file, and none while a later file is being
\* processed; the manifest file changes only after the commit of the current
\* file, only in that file's entry, and holds it before the next file begins
C7_CommitThenManifestThenNext ==
    /\ [](\A k \in Kinds :
            /\ Cardinality(hist[k].runCommitted) <= 1
            /\ proc[k].pc = "embed" => hist[k].runCommitted = {})
    /\ [][\A k \in Kinds :
            /\ disk'[k] # disk[k] =>
                /\ proc[k].pc = "committed"
                /\ proc[k].cur \in hist[k].runCommitted
                /\ \A h \in Hashes(k) :
                       disk'[k][h] # disk[k][h] => h = HashOf(k, proc[k].cur)
            /\ (proc[k].pc = "committed" /\ proc'[k].pc = "embed") =>
                disk'[k][HashOf(k, proc[k].cur)].filename = Files(k)[proc[k].cur].tag
       ]_vars

\* youtube-ingest is in its second file and the first one is in the manifest
C7_Witness ==
    /\ proc["youtube"].pc = "embed"
    /\ proc["youtube"].cur = 2
    /\ Len(proc["youtube"].queue) = 1
    /\ disk["youtube"]["g1"] # NoEntry

\* C8: a file after whose commit a process stopped before the manifest was
\* saved is selected by the next run (if it is still there and its hash is not
\* recorded), and committing it again changes no row, no provenance and no
\* vector or mapping row: all its records are skipped
C8_ReprocessIsNoOp ==
    [][\A k \in Kinds :
        /\ (Commits(k) /\ proc[k].cur \in hist[k].orphaned) =>
            /\ db'[k] = db[k]
            /\ proc'[k].inserted = 0
            /\ proc'[k].upgraded = 0
            /\ proc'[k].skipped = NumRecords(k, proc[k].cur)
        /\ (proc[k].pc = "idle" /\ proc'[k].pc = "embed") =>
            \A f \in hist[k].orphaned :
                (f \in present[k] /\ disk[k][HashOf(k, f)] = NoEntry)
                    => f \in Range(proc'[k].queue)
    ]_vars

\* an orphaned file was committed again
C8_Witness ==
    \E k \in Kinds :
        /\ proc[k].pc = "committed"
        /\ proc[k].cur \in hist[k].orphaned
        /\ proc[k].skipped = NumRecords(k, proc[k].cur)

EmbedFails(k) ==
    proc[k].pc = "embed" /\ hist[k].lastRun = "running" /\ hist'[k].lastRun = "embed_error"

C11_RunContinuesAfterFileError ==
    [][\A k \in Kinds :
        (/\ proc[k].pc = "embed"
         /\ hist[k].lastRun = "running"
         /\ hist'[k].lastRun = "db_error"
         /\ Len(proc[k].queue) > 1) =>
            /\ proc'[k].pc = "embed"
            /\ proc'[k].cur = proc[k].queue[2]
    ]_vars

\* the ids of a sequence of rows
Ids(seq) == {seq[i].id : i \in DOMAIN seq}
\* the mapping rows of entity id in table t
MapRows(st, id) == {i \in DOMAIN st.map : st.map[i].eid = id}
\* the step in which backfill job j starts, fails, ends
BackfillStarts(j) == jobs[j].pc = "idle" /\ jobs'[j].pc = "group"
BackfillFails(j) == jobs[j].pc = "group" /\ jobs'[j].res = "failed"
BackfillEnds(j) == jobs[j].pc = "group" /\ jobs'[j].pc = "idle"

\* C12: no entity has two mapping rows, whatever ingestion, backfill
\* invocations and transcript requests ran or overlapped
C12_OneMappingPerEntity ==
    /\ \A t \in Tables : \A i, j \in DOMAIN estore[t].map :
           estore[t].map[i].eid = estore[t].map[j].eid => i = j
    /\ \A k \in Kinds : \A i, j \in DOMAIN db[k].map :
           db[k].map[i].eid = db[k].map[j].eid => i = j

\* a backfill invocation is about to write a group whose entity another
\* invocation, which selected it too, has embedded meanwhile
C12_Witness ==
    \E j \in JobIds :
        /\ jobs[j].pc = "group"
        /\ MapRows(estore[jobs[j].t], jobs[j].sel[jobs[j].pos].id) # {}

C14_SelectsMostRecentPending ==
    [][\A j \in JobIds : BackfillStarts(j) =>
        LET t == jobs'[j].t
            sel == jobs'[j].sel
            P == Pending(estore[t])
        IN  /\ Len(sel) <= jobs'[j].limit
            /\ \A i \in DOMAIN sel : sel[i] \in P
            /\ \A r \in P : r \notin {sel[i] : i \in DOMAIN sel} =>
                   \A i \in DOMAIN sel : r.at <= sel[i].at
    ]_vars

\* C15 as stated: when an invocation fails in group k, the entities of groups
\* 1..k-1 have exactly one mapping row, with its vector row, those of group
\* k and later have none, and an invocation selects only rows without
\* mapping row
C15_FailureLeavesLaterGroupsUnmapped ==
    [][\A j \in JobIds :
        /\ BackfillFails(j) =>
            LET st == estore'[jobs[j].t]
                sel == jobs[j].sel
            IN  /\ \A i \in 1..(jobs[j].pos - 1) :
                       /\ Cardinality(MapRows(st, sel[i].id)) = 1
                       /\ \A m \in MapRows(st, sel[i].id) : st.map[m].vec \in DOMAIN st.vecs
                /\ \A i \in jobs[j].pos..Len(sel) : MapRows(st, sel[i].id) = {}
        /\ BackfillStarts(j) =>
            \A i \in DOMAIN jobs'[j].sel :
                MapRows(estore[jobs'[j].t], jobs'[j].sel[i].id) = {}
    ]_vars

\* C15 amended: when an invocation fails in group k, the failing step writes
\* nothing, the entities of groups 1..k-1 have exactly one mapping row, with
\* its vector row, the invocation has written mapping rows for the entities
\* of the group at hand only (an entity of group k or later has one only if
\* another writer committed it), and an invocation selects only rows
\* without mapping row
C15_FailureKeepsCommittedGroups ==
    [][\A j \in JobIds :
        /\ BackfillFails(j) =>
            LET st == estore'[jobs[j].t]
                sel == jobs[j].sel
            IN  /\ estore' = estore
                /\ \A i \in 1..(jobs[j].pos - 1) :
                       /\ Cardinality(MapRows(st, sel[i].id)) = 1
                       /\ \A m \in MapRows(st, sel[i].id) : st.map[m].vec \in DOMAIN st.vecs
        /\ (jobs[j].pc = "group" /\ jobs'[j] # jobs[j]) =>
            LET t == jobs[j].t
            IN  /\ \A m \in DOMAIN estore[t].map :
                       m \in DOMAIN estore'[t].map /\ estore'[t].map[m] = estore[t].map[m]
                /\ \A m \in DOMAIN estore'[t].map : m \notin DOMAIN estore[t].map =>
                       estore'[t].map[m].eid \in Ids(GroupOf(jobs[j]))
        /\ BackfillStarts(j) =>
            \A i \in DOMAIN jobs'[j].sel :
                MapRows(estore[jobs'[j].t], jobs'[j].sel[i].id) = {}
    ]_vars

\* an invocation failed in its second group
C15_Witness ==
    \E j \in JobIds : jobs[j].res = "failed" /\ jobs[j].k = 2 /\ jobs[j].t # "videos"

\* the stored entity with natural key id
DocOf(id) == CHOOSE d \in {corpus.docs[i] : i \in DOMAIN corpus.docs} : d.id = id
StoredIds == {corpus.docs[i].id : i \in DOMAIN corpus.docs}
ResultIds == {answer.result[i].id : i \in DOMAIN answer.result}
\* the stored vectors strictly nearer to q than vector v, and those other
\* than v that are at least as near
Nearer(q, v) ==
    {r \in DOMAIN corpus.vecs : Distance(q, corpus.vecs[r]) < Distance(q, corpus.vecs[v])}
AsNear(q, v) ==
    {r \in DOMAIN corpus.vecs :
        r # v /\ Distance(q, corpus.vecs[r]) <= Distance(q, corpus.vecs[v])}
\* the result lists nobody twice and is in ascending order of distance
Ascending(result) ==
    \A i, j \in DOMAIN result :
        i < j => result[i].id # result[j].id /\ result[i].distance <= result[j].distance

\* C16: a semantic search returns only stored entities whose vector is among
\* the 2 * limit nearest to the query and which pass every supplied filter,
\* in ascending order of distance and at most limit of them; an entity that
\* passes the filters and whose vector is among the 2 * limit nearest is left
\* out only if limit nearer or equally near ones are returned
C16_SemanticOverFetchThenFilter ==
    answer.op = "semantic" =>
        /\ Len(answer.result) <= answer.limit
        /\ Ascending(answer.result)
        /\ \A i \in DOMAIN answer.result :
            /\ answer.result[i].id \in StoredIds
            /\ LET d == DocOf(answer.result[i].id)
               IN  /\ d.vec # 0
                   /\ answer.result[i].distance = Distance(answer.q, corpus.vecs[d.vec])
                   /\ Cardinality(Nearer(answer.q, d.vec)) < 2 * answer.limit
                   /\ FilterOk(d, answer.tag, answer.minStars)
        /\ \A id \in StoredIds \ ResultIds :
            LET d == DocOf(id)
            IN  (/\ d.vec # 0
                 /\ Cardinality(AsNear(answer.q, d.vec)) < 2 * answer.limit
                 /\ FilterOk(d, answer.tag, answer.minStars)) =>
                    /\ Len(answer.result) = answer.limit
                    /\ \A i \in DOMAIN answer.result :
                           answer.result[i].distance <= Distance(answer.q, corpus.vecs[d.vec])

\* a search with limit 1 returned nothing because neither of the two nearest
\* vectors passes the filter, though the stored entity e1 passes it
C16_Witness ==
    /\ answer.op = "semantic" /\ answer.limit = 1 /\ answer.tag = "x"
    /\ answer.result = <<>>
    /\ Len(corpus.vecs) = 3
    /\ "e1" \in StoredIds

\* C17: a similar request never returns the entity it names, returns at most
\* limit stored entities in ascending order of their distance to the named
\* entity's vector, and returns nothing if the key is not stored or the
\* entity has no embedding
C17_SimilarExcludesSelf ==
    answer.op = "similar" =>
        /\ answer.key \notin ResultIds
        /\ Len(answer.result) <= answer.limit
        /\ Ascending(answer.result)
        /\ (answer.key \notin StoredIds \/ MappingOf(corpus, answer.key) = 0) =>
               answer.result = <<>>
        /\ \A i \in DOMAIN answer.result :
            /\ answer.result[i].id \in StoredIds
            /\ DocOf(answer.result[i].id).vec # 0
            /\ answer.result[i].distance =
                   Distance(corpus.vecs[MappingOf(corpus, answer.key)],
                            corpus.vecs[DocOf(answer.result[i].id).vec])

\* the entity with the same embedding as the named one was returned, at
\* distance 0, before a farther one
C17_Witness ==
    /\ answer.op = "similar" /\ answer.key = "e2"
    /\ Len(answer.result) = 2
    /\ answer.result[1] = [id |-> "e3", distance |-> 0]

\* C18 as stated: every entity a full-text request returns satisfies the
\* filters the caller supplied, whatever the query string, and at most limit
\* entities are returned
C18_FullTextHonoursFilters ==
    answer.op = "fulltext" =>
        /\ Len(answer.result) <= answer.limit
        /\ \A i \in DOMAIN answer.result :
               FilterOk(DocOf(answer.result[i].id), answer.tag, answer.minStars)

\* C19 as stated: every aggregate row of a date holds the numbers of the
\* activity rows of that date: commits, issuesClosed and prsMerged by type,
\* sessions by source "cass"
C19_AggregateMatchesActivities ==
    \A i \in DOMAIN convex.dayActivities :
        LET r == convex.dayActivities[i]
            d == DayData(convex.activities, r.date)
        IN  /\ r.commits = d.commits
            /\ r.sessions = d.sessions
            /\ r.issuesClosed = d.issuesClosed
            /\ r.prsMerged = d.prsMerged

\* the position of a status in the order pending_review, reviewed, published
\* (0: no draft)
StatusRank(status) ==
    IF status = "none" THEN 0
    ELSE CHOOSE i \in DOMAIN Statuses : Statuses[i] = status

\* C20 as stated: the status of the draft of a week never moves to an
\* earlier one
C20_StatusOnlyForward ==
    [][\A s \in DraftStores : \A w \in Weeks :
        StatusRank(drafts'[s][w].status) >= StatusRank(drafts[s][w].status)
    ]_vars

\* C21 as stated: a draft whose status is "published" has a publish
\* timestamp, whichever operation set the status
C21_PublishedHasTimestamp ==
    \A s \in DraftStores : \A w \in Weeks :
        drafts[s][w].status = "published" => drafts[s][w].publishedAt # NoTime

\* the texts of a sequence of captions or windows
Texts(segs) == [i \in DOMAIN segs |-> segs[i].text]

\* C22: the texts of the windows chunkSegments returns, joined with single
\* spaces, are the texts of the captions joined with single spaces, and the
\* windows cut the caption sequence into consecutive runs: each window's text
\* is the join of the captions of its run
C22_ChunkingCoverage ==
    vtt.pc = "chunked" =>
        LET n == Len(vtt.chunks)
            m == Len(vtt.segments)
        IN  /\ JoinTexts(Texts(vtt.chunks)) = JoinTexts(Texts(vtt.segments))
            /\ \E cut \in [0..n -> 0..m] :
                /\ cut[0] = 0 /\ cut[n] = m
                /\ \A i \in 1..n :
                    /\ cut[i - 1] < cut[i]
                    /\ vtt.chunks[i].text =
                           JoinTexts(Texts(SubSeq(vtt.segments, cut[i - 1] + 1, cut[i])))

\* three captions were cut into a window of two and a window of one
C22_Witness ==
    /\ vtt.pc = "chunked"
    /\ Len(vtt.segments) = 3
    /\ Len(vtt.chunks) = 2
    /\ vtt.chunks[1].text = <<"a", Space, "b">>

\* C23 as stated: no ingestion or sync pass changes a column of a stored
\* row other than the provenance
C23_ContentNeverOverwritten ==
    [][/\ \A k \in Kinds : \A i \in DOMAIN db[k].rows :
           /\ i \in DOMAIN db'[k].rows
           /\ db'[k].rows[i] = [db[k].rows[i] EXCEPT !.source = db'[k].rows[i].source,
                                                     !.upd = db'[k].rows[i].upd]
       /\ \A i \in DOMAIN estore["stars"].rows :
           /\ i \in DOMAIN estore'["stars"].rows
           /\ estore'["stars"].rows[i] = estore["stars"].rows[i]
    ]_vars

\* C23 amended: no ingestion pass changes the key, the text or the import
\* columns of a stored bookmark or video (provenance and updated_at only);
\* github-stars-sync keeps id and starred_at of a stored repository and
\* overwrites its description with the one GitHub lists
C23_ContentFirstWriteWins ==
    [][/\ \A k \in Kinds : \A i \in DOMAIN db[k].rows :
           /\ i \in DOMAIN db'[k].rows
           /\ db'[k].rows[i] = [db[k].rows[i] EXCEPT !.source = db'[k].rows[i].source,
                                                     !.upd = db'[k].rows[i].upd]
       /\ \A i \in DOMAIN estore["stars"].rows :
           /\ i \in DOMAIN estore'["stars"].rows
           /\ estore'["stars"].rows[i] =
                  [estore["stars"].rows[i] EXCEPT
                      !.description = estore'["stars"].rows[i].description]
    ]_vars

\* a tweet was merged by a later file and a repository was synced again
\* after its description had changed
C23_Witness ==
    /\ \E i \in DOMAIN db["twitter"].rows : db["twitter"].rows[i].source = Both
    /\ \E i \in DOMAIN estore["stars"].rows :
           estore["stars"].rows[i] = Repo("r1", 1, "b")

\* the step of a transcript request (POST /api/videos/:videoId/transcript)
TranscriptStep(j) ==
    jobs[j].pc \in {"tr_fetch", "tr_embed", "tr_write"} /\ jobs'[j] # jobs[j]

\* C24 as stated: no request the API server handles changes an entity row, a
\* vector row or a mapping row
C24_ApiNeverWrites ==
    [][\A j \in JobIds : TranscriptStep(j) => estore' = estore]_vars

\* the level the thresholds 1, 5, 10, 20 give a total
LevelOf(total) ==
    IF total = 0 THEN 0
    ELSE IF total \in 1..4 THEN 1
    ELSE IF total \in 5..9 THEN 2
    ELSE IF total \in 10..19 THEN 3
    ELSE 4

\* the aggregate row of a date as the claim words it
ExpectedDay(date) ==
    LET D == {i \in DOMAIN convex.activities : convex.activities[i].date = date}
        sessions == Cardinality({i \in D : convex.activities[i].source = "cass"})
        ofType(t) == Cardinality({i \in D : convex.activities[i].type = t})
        total == sessions + ofType("commit") + ofType("issue_closed") + ofType("pr_merged")
    IN  [date |-> date, level |-> LevelOf(total), sessions |-> sessions,
         commits |-> ofType("commit"), issuesClosed |-> ofType("issue_closed"),
         prsMerged |-> ofType("pr_merged"),
         estimatedMinutes |-> 30 * sessions + 5 * ofType("commit")]

\* C25: for the activity rows of any date, the inline recomputation of
\* batchInsert and recalculateDay compute the same aggregate row, with level
\* 0 for a total of 0, 1 for 1-4, 2 for 5-9, 3 for 10-19, 4 for 20 or more
\* and estimatedMinutes = 30 * sessions + 5 * commits, and every row either
\* of them stored is that row
C25_SameAggregateSameLevels ==
    /\ \A date \in Dates :
        /\ DayData(convex.activities, date) = RecalcDayData(convex.activities, date)
        /\ RecalcDayData(convex.activities, date) = ExpectedDay(date)
    /\ \A i \in DOMAIN convex.dayActivities :
        convex.dayActivities[i] = ExpectedDay(convex.dayActivities[i].date)

\* a day of 19 activities got level 3 from recalculateDay, then batchInsert
\* added the twentieth and stored level 4
C25_Witness ==
    /\ launches = 2
    /\ Cardinality({i \in DOMAIN convex.activities : convex.activities[i].date = "d1"}) = 20
    /\ \E i \in DOMAIN convex.dayActivities :
           convex.dayActivities[i].date = "d1" /\ convex.dayActivities[i].level = 4

\* the failures the claim calls retryable
RetryableAsClaimed == {"502", "503", "stream error", "CANCEL", "timeout", "403", "rate limit"}

\* C26: fetchPageWithRetry makes at most maxRetries attempts for a page and
\* never falls out of its loop; an attempt ends by returning the page, by one
\* more attempt if the failure is retryable and the attempt is not the last
\* one, and by rethrowing otherwise; until it has returned or thrown, a step
\* is enabled
C26_BoundedRetryThenRethrow ==
    /\ [](/\ fetch.attempt <= maxRetries
          /\ fetch.pc # "undefined"
          /\ fetch.pc \in {"exec", "sleep"} => ENABLED (ExecSucceeds \/ Backoff))
    /\ [][/\ (fetch.pc = "exec" /\ fetch'.pc # "exec") =>
               \/ fetch'.pc = "returned" /\ fetch'.err = fetch.err
               \/ /\ fetch'.pc = "sleep"
                  /\ fetch'.err \in RetryableAsClaimed
                  /\ fetch.attempt < maxRetries
               \/ /\ fetch'.pc = "thrown"
                  /\ fetch'.err \notin RetryableAsClaimed \/ fetch.attempt = maxRetries
          /\ (fetch.pc = "sleep" /\ fetch'.pc # "sleep") =>
               /\ fetch'.pc = "exec"
               /\ fetch'.attempt = fetch.attempt + 1
               /\ fetch'.page = fetch.page
          /\ fetch.pc \in {"thrown", "done"} => fetch' = fetch
       ]_vars

\* the last attempt for the second page failed with a retryable error and
\* the error was rethrown
C26_Witness ==
    /\ fetch.pc = "thrown"
    /\ fetch.page = 2
    /\ fetch.attempt = maxRetries
    /\ fetch.err = "503"

\* the channels of the committed files of script k that hold the key
ChannelsOf(k, key) ==
    {Files(k)[f].source : f \in {f \in hist[k].done : key \in KeysOfFile(k, f)}}

\* C27: whatever the order in which the files were processed, the stored
\* keys are the keys of the processed files, and the provenance of a key is
\* 'both' if files of both channels hold it, else the channel of the files
\* that hold it
C27_OrderIndependent ==
    \A k \in Kinds :
        /\ StoredKeys(db[k].rows) = UNION {KeysOfFile(k, f) : f \in hist[k].done}
        /\ \A r \in Range(db[k].rows) :
            IF Cardinality(ChannelsOf(k, r.key)) = 2 THEN r.source = Both
            ELSE r.source \in ChannelsOf(k, r.key)

\* the watch-later file was processed before the liked file: the video it
\* inserted is merged
C27_Witness ==
    /\ hist["youtube"].done = {1, 2}
    /\ \E r \in Range(db["youtube"].rows) :
           r.key = "v1" /\ r.batch = "2024-01-02" /\ r.source = Both

\* the mapping rows of a store point to stored vectors, one mapping row per
\* vector
MapMatchesVectors(st) ==
    /\ \A m \in DOMAIN st.map : st.map[m].vec \in DOMAIN st.vecs
    /\ \A v \in DOMAIN st.vecs : Cardinality({m \in DOMAIN st.map : st.map[m].vec = v}) = 1

\* C28 as stated: in every state every mapping row points to a stored vector
\* row, and every vector row has exactly one mapping row
C28_MappingVectorIntegrity ==
    /\ \A t \in Tables : MapMatchesVectors(estore[t])
    /\ \A k \in Kinds : MapMatchesVectors(db[k])

\* a transcript request for video v is past its UPDATE of the transcript
\* and has not ended
EmbeddingUnderWay(v) ==
    \E j \in JobIds : jobs[j].pc \in {"tr_embed", "tr_write"} /\ jobs[j].sel[1].id = v

\* C29 as stated: a saved video with a stored transcript, for which no
\* request is under way, has an embedding generated from the transcript
C29_TranscriptEmbedded ==
    \A r \in Range(estore["videos"].rows) :
        (r.transcript # "" /\ ~EmbeddingUnderWay(r.id)) =>
            \E m \in Range(estore["videos"].map) :
                /\ m.eid = r.id
                /\ m.vec \in DOMAIN estore["videos"].vecs
                /\ estore["videos"].vecs[m.vec].by = "transcript"

\* C30 as stated: under repeated runs every pending repository is
\* eventually attempted, whatever the other attempts answer, and a
\* repository that answered 404 is never selected again
C30_PendingEventuallyAttempted ==
    /\ \A r \in DOMAIN StarredAt :
           (r \in ReadmePending) ~> (readme.rows[r].fetchedAt # "NULL")
    /\ [][\A r \in DOMAIN StarredAt :
            readme.rows[r].has = 0 => \A i \in DOMAIN readme'.repos : readme'.repos[i].id # r
       ]_vars
====
